---- MODULE Spec2Model ----
(***************************************************************************)
(* Oracle price monitoring: the detection engine (DetectionEngine), the    *)
(* in-memory store (MemStorage) and the orchestration loop                 *)
(* (MonitoringService).                                                    *)
(*                                                                         *)
(* Times are milliseconds as in the source (Date.now()).  Prices are       *)
(* integers; every comparison the source makes on a quotient               *)
(* (x / y * 10000 > k) is evaluated exactly by cross-multiplication, with  *)
(* the IEEE outcomes of a division by zero (Infinity, NaN) spelled out.    *)
(***************************************************************************)
EXTENDS Integers, Sequences, FiniteSets, TLC

(***************************************************************************)
(* Program constants                                                       *)
(***************************************************************************)
HISTORY_SIZE == 100
FLASH_LOAN_WINDOW_MS == 15000
CONFIRMATION_TIMEOUT_MS == 30000
FLASH_LOAN_BPS == 2000
DIVERGENCE_BPS == 1000
DIVERGENCE_CRITICAL_BPS == 1500
DIVERGENCE_EMERGENCY_BPS == 2000
DefaultConfirmationsRequired == 3

\* AlertSeverity
INFO == 0
WARNING == 1
CRITICAL == 2
EMERGENCY == 3

NoChain == "none"

(***************************************************************************)
(* Arithmetic helpers                                                      *)
(***************************************************************************)
Abs(x) == IF x < 0 THEN -x ELSE x

RECURSIVE SumSeq(_)
SumSeq(s) == IF s = <<>> THEN 0 ELSE Head(s) + SumSeq(Tail(s))

RECURSIVE MinSeq(_)
MinSeq(s) == IF Len(s) = 1 THEN Head(s)
             ELSE LET m == MinSeq(Tail(s)) IN IF Head(s) < m THEN Head(s) ELSE m

RECURSIVE MaxSeq(_)
MaxSeq(s) == IF Len(s) = 1 THEN Head(s)
             ELSE LET m == MaxSeq(Tail(s)) IN IF Head(s) > m THEN Head(s) ELSE m

RECURSIVE InsertSorted(_, _)
InsertSorted(x, s) ==
  IF s = <<>> THEN <<x>>
  ELSE IF x <= Head(s) THEN <<x>> \o s
  ELSE <<Head(s)>> \o InsertSorted(x, Tail(s))

\* [...values].sort((a, b) => a - b)
RECURSIVE SortAsc(_)
SortAsc(s) == IF s = <<>> THEN <<>> ELSE InsertSorted(Head(s), SortAsc(Tail(s)))

MapSeq(s, Op(_)) == [i \in 1..Len(s) |-> Op(s[i])]

\* (num / den) * 10000 > k, as IEEE doubles decide it
RatioBpsGT(num, den, k) ==
  IF den > 0 THEN num * 10000 > k * den
  ELSE IF den < 0 THEN num * 10000 < k * den
  ELSE num > 0

\* the lower of the two middle elements for an even length
MiddleOf_Lower(sorted) == sorted[(Len(sorted) + 1) \div 2]

\* sorted[Math.floor(sorted.length / 2)] of a 0-indexed array
MiddleOf(sorted) == sorted[(Len(sorted) \div 2) + 1]

(***************************************************************************)
(* DetectionEngine                                                         *)
(***************************************************************************)
NoDetection == [detected |-> FALSE, type |-> "none", severity |-> INFO, chain |-> NoChain]

Detection(t, sev, ch) == [detected |-> TRUE, type |-> t, severity |-> sev, chain |-> ch]

\* a stale test that forgets to subtract the expected interval
detectStaleOracle_NoGrace(price, config, now) ==
  LET expectedInterval == config.expectedUpdateInterval * 1000
      staleDuration == now - price.timestamp
  IN IF staleDuration > expectedInterval * 2
     THEN Detection("stale_oracle",
                    IF staleDuration > expectedInterval * 5 THEN CRITICAL ELSE WARNING,
                    NoChain)
     ELSE NoDetection

detectStaleOracle(price, config, now) ==
  LET timeSinceUpdate == now - price.timestamp
      expectedInterval == config.expectedUpdateInterval * 1000
      staleDuration == timeSinceUpdate - expectedInterval
  IN IF staleDuration > expectedInterval * 2
     THEN Detection("stale_oracle",
                    IF staleDuration > expectedInterval * 5 THEN CRITICAL ELSE WARNING,
                    NoChain)
     ELSE NoDetection

\* an eviction that drops the newest entry (pop) instead of the oldest (shift)
pushHistory_DropNewest(history, currentPrice) ==
  LET pushed == Append(history, currentPrice)
  IN IF Len(pushed) > HISTORY_SIZE THEN SubSeq(pushed, 1, HISTORY_SIZE) ELSE pushed

\* history.push(currentPrice); if (history.length > HISTORY_SIZE) history.shift()
pushHistory(history, currentPrice) ==
  LET pushed == Append(history, currentPrice)
  IN IF Len(pushed) > HISTORY_SIZE THEN Tail(pushed) ELSE pushed

\* a window that includes the observation exactly 15 seconds old
recentPrices_Inclusive(history, currentPrice) ==
  SelectSeq(history, LAMBDA p : currentPrice.timestamp - p.timestamp <= FLASH_LOAN_WINDOW_MS)

recentPrices(history, currentPrice) ==
  SelectSeq(history, LAMBDA p : currentPrice.timestamp - p.timestamp < FLASH_LOAN_WINDOW_MS)

\* the result of detectFlashLoan on the history as it is after the push
flashLoanResult(history, currentPrice) ==
  LET recent == recentPrices(history, currentPrice)
  IN IF Len(recent) < 2 THEN NoDetection
     ELSE LET prices == MapSeq(recent, LAMBDA p : p.price)
              minPrice == MinSeq(prices)
              maxPrice == MaxSeq(prices)
          IN IF RatioBpsGT(maxPrice - minPrice, minPrice, FLASH_LOAN_BPS)
             THEN Detection("flash_loan", EMERGENCY, NoChain)
             ELSE NoDetection

\* detectFlashLoan: the new history of the key and the result
detectFlashLoan(history, currentPrice) ==
  LET h == pushHistory(history, currentPrice)
  IN [history |-> h, result |-> flashLoanResult(h, currentPrice)]

median(values) == MiddleOf(SortAsc(values))

mad(values) ==
  LET m == median(values)
  IN MiddleOf(SortAsc(MapSeq(values, LAMBDA v : Abs(v - m))))

\* the same test on the sample standard deviation (divisor n - 1)
stdDevBpsGT_Sample(values, k) ==
  LET n == Len(values)
      sum == SumSeq(values)
      Q == SumSeq(MapSeq(values, LAMBDA v : (n * v - sum) * (n * v - sum)))
      k500 == k \div 500
  IN IF sum > 0 THEN 400 * Q > (n - 1) * k500 * k500 * sum * sum
     ELSE IF sum < 0 THEN FALSE
     ELSE Q > 0

\* stdDevBps > k, with stdDev = sqrt(sum((v - mean)^2) / n), mean = sum / n:
\* for sum > 0 this is 10^8 * Q > n * k^2 * sum^2 with Q = sum((n*v - sum)^2);
\* both sides are divided by 500^2 (every k of the source is a multiple of 500).
stdDevBpsGT(values, k) ==
  LET n == Len(values)
      sum == SumSeq(values)
      Q == SumSeq(MapSeq(values, LAMBDA v : (n * v - sum) * (n * v - sum)))
      k500 == k \div 500
  IN IF sum > 0 THEN 400 * Q > n * k500 * k500 * sum * sum
     ELSE IF sum < 0 THEN FALSE
     ELSE Q > 0

\* Math.abs(deviationBps) / 100 > threshold
absDeviationPercentGT(price, med, threshold) ==
  IF med # 0 THEN 100 * Abs(price - med) > threshold * Abs(med)
  ELSE price # 0

\* a z-score without the guard on mad = 0 (x / 0 is Infinity, 0 / 0 is NaN)
zScoreExceeds_Unguarded(price, med, md) ==
  IF md > 0 THEN 10 * Abs(price - med) > 25 * md ELSE price # med

\* zScore > 2.5 with zScore = mad > 0 ? |price - median| / mad : 0
zScoreExceeds(price, med, md) ==
  md > 0 /\ 10 * Abs(price - med) > 25 * md

mispricingResult(price, med, md, config) ==
  IF absDeviationPercentGT(price.price, med, config.thresholds.warning)
     \/ zScoreExceeds(price.price, med, md)
  THEN Detection("mispricing",
                 IF absDeviationPercentGT(price.price, med, config.thresholds.emergency)
                 THEN EMERGENCY
                 ELSE IF absDeviationPercentGT(price.price, med, config.thresholds.critical)
                      THEN CRITICAL
                      ELSE WARNING,
                 price.chain)
  ELSE NoDetection

divergenceResult(values) ==
  IF stdDevBpsGT(values, DIVERGENCE_BPS)
  THEN Detection("divergence",
                 IF stdDevBpsGT(values, DIVERGENCE_EMERGENCY_BPS) THEN EMERGENCY
                 ELSE IF stdDevBpsGT(values, DIVERGENCE_CRITICAL_BPS) THEN CRITICAL
                      ELSE WARNING,
                 NoChain)
  ELSE NoDetection

Detected(results) == SelectSeq(results, LAMBDA r : r.detected)

performStatisticalAnalysis(prices, config) ==
  LET values == MapSeq(prices, LAMBDA p : p.price)
      med == median(values)
      md == mad(values)
  IN Detected(<<divergenceResult(values)>>)
     \o Detected(MapSeq(prices, LAMBDA p : mispricingResult(p, med, md, config)))

(***************************************************************************)
(* Maps (JavaScript Map): functions on the set of present keys             *)
(***************************************************************************)
EmptyMap == <<>>

MapHas(m, k) == k \in DOMAIN m

MapSet(m, k, v) == [x \in (DOMAIN m) \cup {k} |-> IF x = k THEN v ELSE m[x]]

MapDelete(m, k) == [x \in (DOMAIN m) \ {k} |-> m[x]]

\* priceHistory.get(key) || []
historyOf(hist, key) == IF MapHas(hist, key) THEN hist[key] ELSE <<>>

\* the second loop of analyzePrices: detectFlashLoan for every price in order
RECURSIVE pricesFlash(_, _, _, _)
pricesFlash(asset, prices, hist, acc) ==
  IF prices = <<>> THEN [results |-> acc, hist |-> hist]
  ELSE LET p == Head(prices)
           key == <<asset, p.chain>>
           r == detectFlashLoan(historyOf(hist, key), p)
       IN pricesFlash(asset, Tail(prices), MapSet(hist, key, r.history),
                      IF r.result.detected THEN Append(acc, r.result) ELSE acc)

analyzeFlashLoans(asset, prices, hist) ==
  pricesFlash(asset, prices, hist, <<>>)

\* an analysis that runs the statistical checks from two sources on
analyzePrices_TwoSources(asset, prices, config, now, hist) ==
  LET stale == Detected(MapSeq(prices, LAMBDA p : detectStaleOracle(p, config, now)))
      flash == analyzeFlashLoans(asset, prices, hist)
      statistical == IF Len(prices) >= 2
                     THEN performStatisticalAnalysis(prices, config)
                     ELSE <<>>
  IN [results |-> stale \o flash.results \o statistical, hist |-> flash.hist]

\* analyzePrices: the detected results in the order the source pushes them
\* (stale per price, flash-loan per price, then the statistical results)
\* and the price histories after the call
analyzePrices(asset, prices, config, now, hist) ==
  LET stale == Detected(MapSeq(prices, LAMBDA p : detectStaleOracle(p, config, now)))
      flash == analyzeFlashLoans(asset, prices, hist)
      statistical == IF Len(prices) >= 3
                     THEN performStatisticalAnalysis(prices, config)
                     ELSE <<>>
  IN [results |-> stale \o flash.results \o statistical, hist |-> flash.hist]

(***************************************************************************)
(* Bounds of the model                                                     *)
(***************************************************************************)
\* constructor argument of the modelled MonitoringService (period of the
\* detection timer, in ms)
intervalMs == 10000
\* the clock stops advancing here
MaxClock == 50000
\* number of ingestion cycles in which a source delivers data
MaxIngest == 2
\* number of acknowledge requests
MaxAcks == 1

Assets == {"ETH", "BTC"}
\* chains RedStone reports on (its chainMap, restricted to three)
Chains == <<"ethereum", "arbitrum", "solana">>
\* the assets Pyth answers for
PythAssets == {"ETH"}
PythPrices == {150}
RedStonePrices == {100}
TelegramOutcomes == {TRUE}
\* request bodies of POST /api/config/system
ConfigPatches == {[confirmationsRequired |-> 2]}

(***************************************************************************)
(* State                                                                   *)
(***************************************************************************)
VARIABLES
  clock,                 \* Date.now()
  isRunning,             \* MonitoringService.isRunning
  nextCycleAt,           \* due time of the detection timer (monitoringInterval)
  prices,                \* MemStorage.prices, in insertion order
  incidents,             \* MemStorage.incidents, in insertion order
  systemConfig,          \* MemStorage.systemConfig
  assetConfigs,          \* MemStorage.assetConfigs
  priceHistory,          \* DetectionEngine.priceHistory
  incidentConfirmations, \* MonitoringService.incidentConfirmations
  timers,                \* pending setTimeout callbacks of shouldCreateIncident
  live,                  \* per key: creation time of its latest counter, raw detections
                         \* that counter has seen, number of counters the key has had
  lastResults,           \* what analyzePrices returned per asset in the last cycle
  ingested,              \* ingestion cycles that delivered data so far
  acks,                  \* acknowledge requests so far
  input,                 \* arguments of the function under study
  output,                \* its result
  pc,                    \* position of each async function that is in progress
  task,                  \* what the functions in progress hold in their locals
  channel                \* the notification endpoints: credentials, messages accepted

vars == <<clock, isRunning, nextCycleAt, prices, incidents, systemConfig,
          assetConfigs, priceHistory, incidentConfirmations, timers, live,
          lastResults, ingested, acks, input, output, pc, task, channel>>

procVars == <<pc, task, channel>>

\* no async function is in progress; neither channel has credentials (the
\* environment variables are unset) and nothing has been sent
NoTask == [id |-> 0, fate |-> "none", pending |-> <<>>]

procIdle ==
  /\ pc = [handleDetection |-> "idle", fetchRealOraclePrices |-> "idle"]
  /\ task = NoTask
  /\ channel = [telegramEnabled |-> FALSE, twitterEnabled |-> FALSE, accepted |-> {}]

(***************************************************************************)
(* MemStorage                                                              *)
(***************************************************************************)
DefaultThresholds == [warning |-> 10, critical |-> 15, emergency |-> 25]

DefaultAssetConfig(a) ==
  [asset |-> a, expectedUpdateInterval |-> 60, enabled |-> TRUE,
   thresholds |-> DefaultThresholds]

DefaultSystemConfig ==
  [telegramEnabled |-> TRUE, twitterEnabled |-> TRUE, twitterEmergencyOnly |-> TRUE,
   confirmationsRequired |-> DefaultConfirmationsRequired]

OraclePrice(a, ch, p, ts, src) ==
  [asset |-> a, chain |-> ch, price |-> p, timestamp |-> ts, source |-> src]

IndexWhere(s, P(_)) ==
  LET hits == {i \in 1..Len(s) : P(s[i])}
  IN IF hits = {} THEN 0 ELSE CHOOSE i \in hits : \A j \in hits : i <= j

\* Map.set on an insertion-ordered map kept as a sequence of entries
setChain(chains, price) ==
  LET i == IndexWhere(chains, LAMBDA c : c.chain = price.chain)
  IN IF i = 0 THEN Append(chains, price) ELSE [chains EXCEPT ![i] = price]

updatePrice(store, price) ==
  LET i == IndexWhere(store, LAMBDA e : e.asset = price.asset)
  IN IF i = 0
     THEN Append(store, [asset |-> price.asset, chains |-> <<price>>])
     ELSE [store EXCEPT ![i].chains = setChain(store[i].chains, price)]

RECURSIVE updatePrices(_, _)
updatePrices(store, fetched) ==
  IF fetched = <<>> THEN store
  ELSE updatePrices(updatePrice(store, Head(fetched)), Tail(fetched))

\* a createIncident whose id can be one already in use: Map.set replaces the
\* incident stored under it
createIncident_ReusedId(store, incident) ==
  IF store = <<>> THEN Append(store, [incident EXCEPT !.id = 1])
  ELSE [store EXCEPT ![Len(store)] = [incident EXCEPT !.id = Len(store)]]

\* createIncident: the id is the position in the store (randomUUID is fresh)
createIncident(store, incident) ==
  Append(store, [incident EXCEPT !.id = Len(store) + 1])

\* an acknowledge that flips the flag
acknowledgeIncident_Toggle(store, incidentId) ==
  IF incidentId \in 1..Len(store)
  THEN [store EXCEPT ![incidentId].acknowledged = ~@]
  ELSE store

acknowledgeIncident(store, incidentId) ==
  IF incidentId \in 1..Len(store)
  THEN [store EXCEPT ![incidentId].acknowledged = TRUE]
  ELSE store

(***************************************************************************)
(* Notification channels                                                   *)
(***************************************************************************)
\* TwitterService.postIncident: emergencyOnly is true from construction and
\* both the enabled and the disabled branch answer true
postIncident(incident) == incident.severity = EMERGENCY

(***************************************************************************)
(* MonitoringService                                                       *)
(***************************************************************************)
ConfirmationKey(asset, type) == <<asset, type>>

\* a read that misses the counter another detection has stored
currentCount_Missed(conf, key) == 0

\* incidentConfirmations.get(key) || 0
currentCount(conf, key) == IF MapHas(conf, key) THEN conf[key] ELSE 0

\* an off-by-one confirmation test
confirmed_OffByOne(newCount, required) == newCount + 1 >= required

\* the boolean shouldCreateIncident returns
confirmed(newCount, required) == newCount >= required

\* an expiry that is re-armed by every detection of the key
scheduleExpiry_Rearmed(tm, key, now) ==
  Append(SelectSeq(tm, LAMBDA t : t.key # key),
         [key |-> key, due |-> now + CONFIRMATION_TIMEOUT_MS])

\* setTimeout(() => incidentConfirmations.delete(key), 30000)
scheduleExpiry(tm, key, now) ==
  Append(tm, [key |-> key, due |-> now + CONFIRMATION_TIMEOUT_MS])

\* shouldCreateIncident on the cycle state st
shouldCreateIncident(st, asset, type, required, now) ==
  LET key == ConfirmationKey(asset, type)
      current == currentCount(st.conf, key)
      newCount == current + 1
      seen == IF MapHas(st.conf, key)
              THEN [st.live[key] EXCEPT !.detections = @ + 1]
              ELSE [createdAt |-> now, detections |-> 1,
                    generation |-> IF MapHas(st.live, key)
                                   THEN st.live[key].generation + 1 ELSE 1]
  IN [st EXCEPT !.conf = MapSet(st.conf, key, newCount),
                !.timers = scheduleExpiry(st.timers, key, now),
                !.live = MapSet(st.live, key, seen),
                !.ok = confirmed(newCount, required)]

handleDetection(store, asset, result, config, now, telegramSent, rawSeen) ==
  LET created == createIncident(store,
          [id |-> 0, type |-> result.type, severity |-> result.severity,
           chain |-> IF result.chain = NoChain THEN "ethereum" ELSE result.chain,
           asset |-> asset, timestamp |-> now, acknowledged |-> FALSE,
           confirmationCount |-> config.confirmationsRequired,
           sentToTelegram |-> FALSE, sentToTwitter |-> FALSE,
           rawSeen |-> rawSeen])
      id == Len(created)
      incident == created[id]
      afterTelegram == IF config.telegramEnabled
                       THEN [incident EXCEPT !.sentToTelegram = telegramSent]
                       ELSE incident
      shouldTweet == IF config.twitterEmergencyOnly
                     THEN incident.severity = EMERGENCY ELSE TRUE
      afterTwitter == IF config.twitterEnabled /\ shouldTweet
                      THEN [afterTelegram EXCEPT !.sentToTwitter = postIncident(incident)]
                      ELSE afterTelegram
  IN [created EXCEPT ![id] = afterTwitter]

\* the inner loop of monitorCycle over the results of one asset
RECURSIVE handleResults(_, _, _, _, _, _)
handleResults(st, asset, results, config, now, telegramSent) ==
  IF results = <<>> THEN st
  ELSE LET result == Head(results)
           s1 == shouldCreateIncident(st, asset, result.type,
                                      config.confirmationsRequired, now)
           s2 == IF s1.ok
                 THEN [s1 EXCEPT !.incidents =
                         handleDetection(s1.incidents, asset, result, config, now,
                              telegramSent,
                              s1.live[ConfirmationKey(asset, result.type)].detections)]
                 ELSE s1
       IN handleResults(s2, asset, Tail(results), config, now, telegramSent)

\* null, as a request body can set it
Null == [null |-> TRUE]

\* analyzePrices throws a TypeError when performStatisticalAnalysis reads
\* config.thresholds.warning of a configuration whose thresholds are null
analysisThrows(chains, config) ==
  Len(chains) >= 3 /\ "warning" \notin DOMAIN config.thresholds

\* a skip test that looks for the configuration and not at its enabled flag
assetSkipped_EnabledIgnored(configs, asset) == ~MapHas(configs, asset)

\* if (!assetConfig || !assetConfig.enabled) continue
assetSkipped(configs, asset) == ~MapHas(configs, asset) \/ ~configs[asset].enabled

\* the outer loop of monitorCycle over the price snapshot
RECURSIVE monitorAssets(_, _, _, _, _, _)
monitorAssets(st, multiChainPrices, configs, config, now, telegramSent) ==
  IF multiChainPrices = <<>> THEN st
  ELSE LET multiPrice == Head(multiChainPrices)
           asset == multiPrice.asset
           rest == Tail(multiChainPrices)
       IN IF assetSkipped(configs, asset)
          THEN monitorAssets(st, rest, configs, config, now, telegramSent)
          ELSE IF analysisThrows(multiPrice.chains, configs[asset])
          THEN \* the catch of monitorCycle: the loop is left; the histories
               \* keep what detectFlashLoan recorded before the throw
               [st EXCEPT !.hist = analyzeFlashLoans(asset, multiPrice.chains, st.hist).hist]
          ELSE LET a == analyzePrices(asset, multiPrice.chains, configs[asset],
                                      now, st.hist)
                   s1 == [st EXCEPT !.hist = a.hist,
                                    !.results = MapSet(st.results, asset, a.results)]
                   s2 == handleResults(s1, asset, a.results, config, now, telegramSent)
               IN monitorAssets(s2, rest, configs, config, now, telegramSent)

\* getLatestPrices: the assets that have at least one chain price
getLatestPrices(store) == SelectSeq(store, LAMBDA e : Len(e.chains) > 0)

cycleState ==
  [hist |-> priceHistory, conf |-> incidentConfirmations, timers |-> timers,
   live |-> live, incidents |-> incidents, results |-> EmptyMap, ok |-> FALSE]

monitorCycle(telegramSent) ==
  LET st == monitorAssets(cycleState, getLatestPrices(prices), assetConfigs,
                          systemConfig, clock, telegramSent)
  IN /\ priceHistory' = st.hist
     /\ incidentConfirmations' = st.conf
     /\ timers' = st.timers
     /\ live' = st.live
     /\ incidents' = st.incidents
     /\ lastResults' = st.results

AssetOrder == <<"ETH", "BTC">>

\* PythAdapter.fetchMultiplePrices: one 'solana' price per asset served.
\* The timestamp of a delivered price (publish_time * 1000 for Pyth,
\* priceData.timestamp || Date.now() for RedStone) is taken to be the time of
\* the fetch: the sources deliver fresh prices.
pythPrices(served, now) ==
  MapSeq(SelectSeq(AssetOrder, LAMBDA a : a \in DOMAIN served),
         LAMBDA a : OraclePrice(a, "solana", served[a], now, "Pyth"))

RECURSIVE redstonePricesOf(_, _, _)
redstonePricesOf(assets, served, now) ==
  IF assets = <<>> THEN <<>>
  ELSE MapSeq(Chains, LAMBDA ch :
                 OraclePrice(Head(assets), ch, served[Head(assets)], now, "redstone"))
       \o redstonePricesOf(Tail(assets), served, now)

\* RedStoneAdapter.fetchPrices: one entry per chain for every asset served
redstonePrices(served, now) ==
  redstonePricesOf(SelectSeq(AssetOrder, LAMBDA a : a \in DOMAIN served), served, now)

\* what Pyth can answer: nothing (failure, empty answer) or a price for the
\* assets it is asked for
PythAnswers == {EmptyMap} \cup [PythAssets -> PythPrices]

\* what RedStone can answer: nothing or a price for every asset
RedStoneAnswers == {EmptyMap} \cup [Assets -> RedStonePrices]

(***************************************************************************)
(* Actions                                                                 *)
(***************************************************************************)
Idle == [done |-> FALSE]

Returned(v) == [done |-> TRUE, value |-> v]

Init ==
  /\ clock = 0
  /\ isRunning = FALSE
  /\ nextCycleAt = 0
  /\ prices = <<>>
  /\ incidents = <<>>
  /\ systemConfig = DefaultSystemConfig
  /\ assetConfigs = [a \in Assets |-> DefaultAssetConfig(a)]
  /\ priceHistory = EmptyMap
  /\ incidentConfirmations = EmptyMap
  /\ timers = <<>>
  /\ live = EmptyMap
  /\ lastResults = EmptyMap
  /\ ingested = 0
  /\ acks = 0
  /\ input = Idle
  /\ output = Idle
  /\ procIdle

\* start(): installs the timers and runs the initial monitorCycle
Start ==
  /\ ~isRunning
  /\ isRunning' = TRUE
  /\ nextCycleAt' = clock + intervalMs
  /\ \E telegramSent \in TelegramOutcomes : monitorCycle(telegramSent)
  /\ UNCHANGED <<clock, prices, systemConfig, assetConfigs, ingested, acks, input, output>>
  /\ UNCHANGED procVars

\* a tick of monitoringInterval
MonitorTick ==
  /\ isRunning
  /\ clock = nextCycleAt
  /\ nextCycleAt' = clock + intervalMs
  /\ \E telegramSent \in TelegramOutcomes : monitorCycle(telegramSent)
  /\ UNCHANGED <<clock, isRunning, prices, systemConfig, assetConfigs, ingested,
                 acks, input, output>>
  /\ UNCHANGED procVars

\* a tick of priceUpdateInterval in which at least one source delivers
FetchRealOraclePrices ==
  /\ isRunning
  /\ ingested < MaxIngest
  /\ \E pyth \in PythAnswers, redstone \in RedStoneAnswers :
        /\ DOMAIN pyth # {} \/ DOMAIN redstone # {}
        /\ prices' = updatePrices(prices,
                        pythPrices(pyth, clock) \o redstonePrices(redstone, clock))
  /\ ingested' = ingested + 1
  /\ UNCHANGED <<clock, isRunning, nextCycleAt, incidents, systemConfig, assetConfigs,
                 priceHistory, incidentConfirmations, timers, live, lastResults,
                 acks, input, output>>
  /\ UNCHANGED procVars

\* the setTimeout callback of shouldCreateIncident (all timers have the same
\* delay, so they fire in the order they were scheduled)
ConfirmationTimeout ==
  /\ timers # <<>>
  /\ Head(timers).due <= clock
  /\ incidentConfirmations' = MapDelete(incidentConfirmations, Head(timers).key)
  /\ live' = IF MapHas(incidentConfirmations, Head(timers).key)
             THEN [live EXCEPT ![Head(timers).key].detections = 0]
             ELSE live
  /\ timers' = Tail(timers)
  /\ UNCHANGED <<clock, isRunning, nextCycleAt, prices, incidents, systemConfig,
                 assetConfigs, priceHistory, lastResults, ingested, acks, input, output>>
  /\ UNCHANGED procVars

\* POST /api/incidents/:id/acknowledge
AcknowledgeIncident ==
  /\ acks < MaxAcks
  /\ \E id \in 1..(Len(incidents) + 1) :
        incidents' = acknowledgeIncident(incidents, id)
  /\ acks' = acks + 1
  /\ UNCHANGED <<clock, isRunning, nextCycleAt, prices, systemConfig, assetConfigs,
                 priceHistory, incidentConfirmations, timers, live, lastResults,
                 ingested, input, output>>
  /\ UNCHANGED procVars

\* POST /api/config/system
UpdateSystemConfig ==
  /\ \E patch \in ConfigPatches :
        systemConfig' = [f \in DOMAIN systemConfig |->
                           IF f \in DOMAIN patch THEN patch[f] ELSE systemConfig[f]]
  /\ UNCHANGED <<clock, isRunning, nextCycleAt, prices, incidents, assetConfigs,
                 priceHistory, incidentConfirmations, timers, live, lastResults,
                 ingested, acks, input, output>>
  /\ UNCHANGED procVars

\* time passes up to the next timer that is due
NextDue ==
  LET due == (IF isRunning THEN {nextCycleAt} ELSE {})
             \cup (IF timers # <<>> THEN {Head(timers).due} ELSE {})
  IN IF due = {} THEN -1 ELSE CHOOSE d \in due : \A e \in due : d <= e

AdvanceClock ==
  /\ NextDue > clock
  /\ NextDue <= MaxClock
  /\ clock' = NextDue
  /\ UNCHANGED <<isRunning, nextCycleAt, prices, incidents, systemConfig, assetConfigs,
                 priceHistory, incidentConfirmations, timers, live, lastResults,
                 ingested, acks, input, output>>
  /\ UNCHANGED procVars

Next ==
  \/ Start
  \/ MonitorTick
  \/ FetchRealOraclePrices
  \/ ConfirmationTimeout
  \/ AcknowledgeIncident
  \/ UpdateSystemConfig
  \/ AdvanceClock

Spec == Init /\ [][Next]_vars

(***************************************************************************)
(* Confirmation and deduplication                                          *)
(***************************************************************************)
IncidentIds == 1..Len(incidents)

OpenIncident(i) ==
  /\ ~incidents[i].acknowledged
  /\ clock - incidents[i].timestamp <= CONFIRMATION_TIMEOUT_MS

\* C1: at most one incident per (asset, detectionType) is unacknowledged and
\* was created within the last 30 seconds.
C1_OneOpenIncidentPerKey ==
  \A i, j \in IncidentIds :
    (/\ OpenIncident(i) /\ OpenIncident(j)
     /\ incidents[i].asset = incidents[j].asset
     /\ incidents[i].type = incidents[j].type) => i = j

\* C2: the detection that brings a counter to confirmationsRequired emits the
\* incident and deletes the counter, so that the next incident of the key
\* needs a fresh sequence: a counter a detection pass has just incremented
\* and left in place stands below confirmationsRequired.
C2_CounterDeletedAtConfirmation ==
  [][\A k \in DOMAIN incidentConfirmations' :
       (currentCount(incidentConfirmations, k) # incidentConfirmations'[k])
         => incidentConfirmations'[k] < systemConfig.confirmationsRequired]_vars

C4_CounterExpiresWithinTimeout ==
  \A k \in DOMAIN incidentConfirmations :
    /\ clock - live[k].createdAt <= CONFIRMATION_TIMEOUT_MS
    /\ incidentConfirmations[k] = live[k].detections
    /\ incidentConfirmations[k] >= 1

\* a key whose earlier counter (count 3 or more) was removed by its timeout
\* has a new counter, which stands at 1
C4_Witness ==
  \E k \in DOMAIN incidentConfirmations :
    /\ live[k].generation >= 2
    /\ incidentConfirmations[k] = 1
    /\ \E i \in IncidentIds :
          /\ ConfirmationKey(incidents[i].asset, incidents[i].type) = k
          /\ incidents[i].timestamp < live[k].createdAt

(***************************************************************************)
(* detectStaleOracle on drawn inputs                                       *)
(***************************************************************************)
StaleIntervals == {30, 60, 300}
StaleAges == {k * 30000 + d : k \in 0..12, d \in {0, 1, 1000}}
            \cup {i * f + d : i \in {30000, 60000, 300000}, f \in {3, 6}, d \in {0, 1}}
StaleNow == 4000000

\* every variable the function specifications do not use
engineIdle ==
  /\ isRunning = FALSE
  /\ nextCycleAt = 0
  /\ prices = <<>>
  /\ incidents = <<>>
  /\ systemConfig = DefaultSystemConfig
  /\ assetConfigs = [a \in Assets |-> DefaultAssetConfig(a)]
  /\ incidentConfirmations = EmptyMap
  /\ timers = <<>>
  /\ live = EmptyMap
  /\ lastResults = EmptyMap
  /\ acks = 0
  /\ procIdle

engineVars == <<isRunning, nextCycleAt, prices, incidents, systemConfig, assetConfigs,
                incidentConfirmations, timers, live, lastResults, acks, pc, task, channel>>

InitStale ==
  /\ engineIdle
  /\ clock = StaleNow
  /\ priceHistory = EmptyMap
  /\ ingested = 0
  /\ \E age \in StaleAges, i \in StaleIntervals :
        input = [price |-> OraclePrice("ETH", "ethereum", 100, StaleNow - age, "redstone"),
                 config |-> [DefaultAssetConfig("ETH") EXCEPT !.expectedUpdateInterval = i]]
  /\ output = Idle

StaleCall ==
  /\ ~output.done
  /\ output' = Returned(detectStaleOracle(input.price, input.config, clock))
  /\ UNCHANGED <<clock, priceHistory, ingested, input>>
  /\ UNCHANGED engineVars

NextStale == StaleCall

SpecStale == InitStale /\ [][NextStale]_vars

\* C6: detectStaleOracle fires iff now - observedAt exceeds three times the
\* expected update interval (staleDuration = now - observedAt - I > 2 * I);
\* the severity is Critical iff staleDuration > 5 * I and Warning otherwise;
\* with I = 60s it does not fire at 180s and fires at 181s.
C6_StaleRule ==
  output.done =>
    LET age == clock - input.price.timestamp
        I == input.config.expectedUpdateInterval * 1000
        result == output.value
    IN /\ result.detected <=> age > 3 * I
       /\ result.detected =>
            /\ result.type = "stale_oracle"
            /\ result.severity = IF age > 6 * I THEN CRITICAL ELSE WARNING
       /\ (I = 60000 /\ age = 180000) => ~result.detected
       /\ (I = 60000 /\ age = 181000) => result.detected /\ result.severity = WARNING

C6_Witness ==
  /\ output.done
  /\ input.config.expectedUpdateInterval = 60
  /\ clock - input.price.timestamp = 181000
  /\ output.value.detected

(***************************************************************************)
(* detectFlashLoan on a short stream of observations of one key            *)
(***************************************************************************)
MaxFlashCalls == 3
FlashPrices == {100, 115, 120, 125}
\* time between two observations of the key
FlashSteps == {0, 5000, 10000, 15000}
FlashKey == <<"ETH", "solana">>

InitFlash ==
  /\ engineIdle
  /\ clock = 0
  /\ priceHistory = EmptyMap
  /\ ingested = 0
  /\ input = Idle
  /\ output = Idle

FlashCall ==
  /\ ingested < MaxFlashCalls
  /\ \E p \in FlashPrices, dt \in FlashSteps :
        LET currentPrice == OraclePrice("ETH", "solana", p, clock + dt, "Pyth")
            r == detectFlashLoan(historyOf(priceHistory, FlashKey), currentPrice)
        IN /\ clock' = clock + dt
           /\ input' = [done |-> TRUE, price |-> currentPrice]
           /\ priceHistory' = MapSet(priceHistory, FlashKey, r.history)
           /\ output' = Returned(r.result)
  /\ ingested' = ingested + 1
  /\ UNCHANGED engineVars

NextFlash == FlashCall

SpecFlash == InitFlash /\ [][NextFlash]_vars

\* the entries of a history that are less than 15 seconds older than cur
InWindow(h, cur) ==
  {i \in 1..Len(h) : cur.timestamp - h[i].timestamp < FLASH_LOAN_WINDOW_MS}

PricesOf(h) == [i \in 1..Len(h) |-> h[i].price]

MaxOverflow == 3
\* the price may change during the first MaxVaried recordings
MaxVaried == 3
HistoryPrices == {100, 125}

RecordObservation ==
  /\ ingested < HISTORY_SIZE + MaxOverflow
  /\ \E p \in HistoryPrices :
        /\ ingested >= MaxVaried => p = input.price.price
        /\ LET currentPrice == OraclePrice("ETH", "solana", p, clock + intervalMs, "Pyth")
               r == detectFlashLoan(historyOf(priceHistory, FlashKey), currentPrice)
           IN /\ clock' = clock + intervalMs
              /\ input' = [done |-> TRUE, price |-> currentPrice]
              /\ priceHistory' = MapSet(priceHistory, FlashKey, r.history)
              /\ output' = Returned(r.result)
  /\ ingested' = ingested + 1
  /\ UNCHANGED engineVars

NextHistory == RecordObservation

SpecHistory == InitFlash /\ [][NextHistory]_vars

\* C5: a history never holds more than 100 observations, and a recording into
\* a history of 100 removes its first entry, keeps the other 99 in their
\* order and puts the new observation last.
C5_HistoryBounded ==
  [][\A key \in DOMAIN priceHistory' :
       LET old == historyOf(priceHistory, key)
           new == priceHistory'[key]
       IN /\ Len(new) <= HISTORY_SIZE
          /\ (new # old /\ Len(old) < HISTORY_SIZE) => new = Append(old, input'.price)
          /\ (ingested' # ingested /\ Len(old) = HISTORY_SIZE) =>
                new = Append(Tail(old), input'.price)]_vars

\* the second eviction has happened: the history is full and starts with the
\* third observation
C5_Witness ==
  /\ ingested = HISTORY_SIZE + 2
  /\ Len(priceHistory[FlashKey]) = HISTORY_SIZE
  /\ priceHistory[FlashKey][1].timestamp = 3 * intervalMs
  /\ priceHistory[FlashKey][HISTORY_SIZE] = input.price

(***************************************************************************)
(* performStatisticalAnalysis on drawn cross-source samples                *)
(***************************************************************************)
MaxSample == 5
StatPrices == {99, 100, 101, 102, 130, 150}
StatChains == <<"ethereum", "arbitrum", "optimism", "base", "solana", "polygon">>
\* the thresholds of the default asset configurations (ETH/BTC, SOL, USDC)
StatThresholds == {DefaultThresholds,
                   [warning |-> 15, critical |-> 25, emergency |-> 40],
                   [warning |-> 2, critical |-> 5, emergency |-> 10]}

SamplePrices(values, now) ==
  [i \in 1..Len(values) |-> OraclePrice("ETH", StatChains[i], values[i], now, "redstone")]

InitStats ==
  /\ engineIdle
  /\ clock = 0
  /\ priceHistory = EmptyMap
  /\ ingested = 0
  /\ \E n \in 3..MaxSample : \E values \in [1..n -> StatPrices] :
       \E th \in StatThresholds :
          input = [done |-> TRUE, prices |-> SamplePrices(values, 0),
                   config |-> [DefaultAssetConfig("ETH") EXCEPT !.thresholds = th]]
  /\ output = Idle

StatsCall ==
  /\ ~output.done
  /\ output' = Returned(performStatisticalAnalysis(input.prices, input.config))
  /\ UNCHANGED <<clock, priceHistory, ingested, input>>
  /\ UNCHANGED engineVars

NextStats == StatsCall

SpecStats == InitStats /\ [][NextStats]_vars

\* the element at index floor(n/2) of the ascending order of f[1..n], as an
\* order statistic: at most floor(n/2) elements are below it and more than
\* floor(n/2) are not above it
OrderMiddle(f) ==
  LET n == Len(f)
      k == n \div 2
  IN CHOOSE m \in {f[i] : i \in 1..n} :
       /\ Cardinality({i \in 1..n : f[i] < m}) <= k
       /\ Cardinality({i \in 1..n : f[i] <= m}) > k

ValuesOf(ps) == [i \in 1..Len(ps) |-> ps[i].price]

OfType(results, t) == SelectSeq(results, LAMBDA r : r.type = t)

\* C8: in a sample of at least 3 observations a Mispricing outcome is produced
\* for an observation iff its deviation from the median, in percent of the
\* median, exceeds thresholds.warning or (MAD > 0 and |price - median| / MAD
\* > 2.5); the severity is Emergency above thresholds.emergency, else
\* Critical above thresholds.critical, else Warning.  Of {100,101,99,102,150}
\* only 150 is flagged.
C8_MispricingRule ==
  output.done =>
    LET ps == input.prices
        th == input.config.thresholds
        v == ValuesOf(ps)
        m == OrderMiddle(v)
        md == OrderMiddle([i \in 1..Len(v) |-> Abs(v[i] - m)])
        dev(i) == Abs(v[i] - m)
        flagged(i) == 100 * dev(i) > th.warning * m
                      \/ (md > 0 /\ 2 * dev(i) > 5 * md)
        sev(i) == IF 100 * dev(i) > th.emergency * m THEN EMERGENCY
                  ELSE IF 100 * dev(i) > th.critical * m THEN CRITICAL
                       ELSE WARNING
        mis == OfType(output.value, "mispricing")
    IN /\ Len(mis) = Cardinality({i \in 1..Len(ps) : flagged(i)})
       /\ \A i \in 1..Len(ps) :
            flagged(i) <=> \E r \in 1..Len(mis) :
                              /\ mis[r].chain = ps[i].chain
                              /\ mis[r].severity = sev(i)
       /\ (v = <<100, 101, 99, 102, 150>> /\ th = DefaultThresholds) =>
            /\ m = 101
            /\ {mis[r].chain : r \in 1..Len(mis)} = {ps[5].chain}

C8_Witness ==
  /\ output.done
  /\ ValuesOf(input.prices) = <<100, 101, 99, 102, 150>>
  /\ input.config.thresholds = DefaultThresholds
  /\ Len(OfType(output.value, "mispricing")) = 1
  /\ OfType(output.value, "mispricing")[1].chain = input.prices[5].chain

\* a flag raised by the z-score alone
C8_ZScoreReached ==
  /\ output.done
  /\ ValuesOf(input.prices) = <<99, 101, 102, 102, 130>>
  /\ input.config.thresholds = DefaultThresholds
  /\ \E r \in 1..Len(output.value) :
        /\ output.value[r].type = "mispricing"
        /\ output.value[r].chain = input.prices[1].chain
        /\ output.value[r].severity = WARNING

\* stdDev / mean * 10000 > k on n * sum(v^2) - sum(v)^2, the squared
\* population standard deviation times n^2 (k a multiple of 500, prices > 0)
SpreadAbove(v, k) ==
  LET n == Len(v)
      s1 == SumSeq(v)
      s2 == SumSeq([i \in 1..n |-> v[i] * v[i]])
  IN 400 * (n * s2 - s1 * s1) > (k \div 500) * (k \div 500) * s1 * s1

C9_CriticalReached ==
  /\ output.done
  /\ Len(OfType(output.value, "divergence")) = 1
  /\ OfType(output.value, "divergence")[1].severity = CRITICAL

C9_EmergencyReached ==
  /\ output.done
  /\ Len(OfType(output.value, "divergence")) = 1
  /\ OfType(output.value, "divergence")[1].severity = EMERGENCY

(***************************************************************************)
(* analyzePrices on successive snapshots of one asset                      *)
(***************************************************************************)
MaxAnalyzeCalls == 2
AnalyzePrices == {100, 130}
\* age of the first observation of a snapshot: fresh, or stale for the
\* 60-second expected update interval
AnalyzeAges == {0, 200000}

Snapshot(values, age, now) ==
  [i \in 1..Len(values) |->
     OraclePrice("ETH", Chains[i], values[i], IF i = 1 THEN now - age ELSE now, "redstone")]

InitAnalyze ==
  /\ engineIdle
  /\ clock = StaleNow
  /\ priceHistory = EmptyMap
  /\ ingested = 0
  /\ input = Idle
  /\ output = Idle

AnalyzeCall ==
  /\ ingested < MaxAnalyzeCalls
  /\ \E n \in 0..Len(Chains) : \E values \in [1..n -> AnalyzePrices] :
       \E age \in AnalyzeAges :
          LET now == clock + intervalMs
              snapshot == Snapshot(values, age, now)
              a == analyzePrices("ETH", snapshot, assetConfigs["ETH"], now, priceHistory)
          IN /\ (n = 0 => age = 0)
             /\ clock' = now
             /\ input' = [done |-> TRUE, prices |-> snapshot]
             /\ priceHistory' = a.hist
             /\ output' = Returned(a.results)
  /\ ingested' = ingested + 1
  /\ UNCHANGED engineVars

NextAnalyze == AnalyzeCall

SpecAnalyze == InitAnalyze /\ [][NextAnalyze]_vars

\* C10: with fewer than 3 observations analyzePrices produces no Mispricing
\* and no Divergence outcome, whatever the prices, while every observation is
\* still checked for staleness and recorded and checked for a flash swing.
C10_FewSourcesSkipStatistics ==
  (output.done /\ Len(input.prices) < 3) =>
    LET ps == input.prices
        I == assetConfigs["ETH"].expectedUpdateInterval * 1000
        staleObs == {i \in 1..Len(ps) : clock - ps[i].timestamp > 3 * I}
        swingObs == {i \in 1..Len(ps) :
                       LET h == priceHistory[<<"ETH", ps[i].chain>>]
                           W == InWindow(h, ps[i])
                       IN \E x, y \in W : 10 * (h[x].price - h[y].price) > 2 * h[y].price}
    IN /\ OfType(output.value, "mispricing") = <<>>
       /\ OfType(output.value, "divergence") = <<>>
       /\ Len(OfType(output.value, "stale_oracle")) = Cardinality(staleObs)
       /\ Len(OfType(output.value, "flash_loan")) = Cardinality(swingObs)
       /\ \A i \in 1..Len(ps) :
            LET h == priceHistory[<<"ETH", ps[i].chain>>] IN h[Len(h)] = ps[i]

\* two sources that disagree by 30%: a stale and a flash-swing outcome are
\* returned and no statistical outcome
C10_Witness ==
  /\ output.done
  /\ Len(input.prices) = 2
  /\ ValuesOf(input.prices) = <<130, 100>>
  /\ OfType(output.value, "stale_oracle") # <<>>
  /\ OfType(output.value, "flash_loan") # <<>>
  /\ OfType(output.value, "mispricing") = <<>>
  /\ OfType(output.value, "divergence") = <<>>

(***************************************************************************)
(* Prices as the sources deliver them: Pyth's price is an int64 scaled by  *)
(* a power of ten and passes through the adapter unchecked                 *)
(***************************************************************************)
\* what Pyth can deliver for ETH, a zero and a negative price included
PythRawPrices == {-100, 0, 100, 130}

\* an ingestion cycle in which only Pyth delivers (RedStone answers nothing)
FetchPythPrices ==
  /\ isRunning
  /\ ingested < MaxIngest
  /\ \E p \in PythRawPrices :
        prices' = updatePrices(prices,
                     pythPrices([a \in {"ETH"} |-> p], clock) \o redstonePrices(EmptyMap, clock))
  /\ ingested' = ingested + 1
  /\ UNCHANGED <<clock, isRunning, nextCycleAt, incidents, systemConfig, assetConfigs,
                 priceHistory, incidentConfirmations, timers, live, lastResults,
                 acks, input, output>>
  /\ UNCHANGED procVars

NextRaw ==
  \/ Start
  \/ MonitorTick
  \/ FetchPythPrices
  \/ ConfirmationTimeout
  \/ AdvanceClock

SpecRaw == Init /\ [][NextRaw]_vars

\* C11: an observation whose price is zero or negative is rejected before any
\* rule runs: no price history ever holds one, and no detection pass returns
\* an outcome for an asset whose stored observations are all of that kind.
C11_NonPositivePriceRejected ==
  /\ \A key \in DOMAIN priceHistory :
       \A i \in 1..Len(priceHistory[key]) : priceHistory[key][i].price > 0
  /\ \A a \in DOMAIN lastResults :
       (\A e \in 1..Len(prices) :
           prices[e].asset = a =>
             \A c \in 1..Len(prices[e].chains) : prices[e].chains[c].price <= 0)
         => lastResults[a] = <<>>

(***************************************************************************)
(* The incident store behind the API: createIncident (detections, manual   *)
(* simulations, generated samples), acknowledgeIncident and getIncidents   *)
(***************************************************************************)
\* incidents created, acknowledge requests and list requests in a run
MaxStoreCreates == 3
MaxStoreAcks == 2
\* the timestamps of created incidents (generated samples are back-dated by
\* hours, so insertion order and time order differ)
IncidentTimes == {1000, 2000, 3000}
\* ?limit= of GET /api/incidents after parseInt; 100 when it is absent
DefaultListLimit == 100
ListLimits == {-1, 0, 1, 2, DefaultListLimit}

\* a sort that puts the oldest incident first
RECURSIVE InsertByTimestamp_Ascending(_, _)
InsertByTimestamp_Ascending(x, s) ==
  IF s = <<>> THEN <<x>>
  ELSE IF Head(s).timestamp <= x.timestamp
       THEN <<Head(s)>> \o InsertByTimestamp_Ascending(x, Tail(s))
       ELSE <<x>> \o s

\* x goes behind every element that is not older than it (the sort is stable)
RECURSIVE InsertByTimestamp(_, _)
InsertByTimestamp(x, s) ==
  IF s = <<>> THEN <<x>>
  ELSE IF Head(s).timestamp >= x.timestamp
       THEN <<Head(s)>> \o InsertByTimestamp(x, Tail(s))
       ELSE <<x>> \o s

\* .sort((a, b) => b.timestamp - a.timestamp)
RECURSIVE sortNewestFirst(_)
sortNewestFirst(s) ==
  IF s = <<>> THEN <<>>
  ELSE InsertByTimestamp(s[Len(s)], sortNewestFirst(SubSeq(s, 1, Len(s) - 1)))

\* Array.prototype.slice(0, end): a negative end counts from the end
sliceTo(s, end) ==
  LET n == Len(s)
      k == IF end < 0 THEN (IF n + end < 0 THEN 0 ELSE n + end)
           ELSE (IF end > n THEN n ELSE end)
  IN SubSeq(s, 1, k)

getIncidents(store, limit) == sliceTo(sortNewestFirst(store), limit)

InitStore ==
  /\ clock = 0
  /\ isRunning = FALSE
  /\ nextCycleAt = 0
  /\ prices = <<>>
  /\ incidents = <<>>
  /\ systemConfig = DefaultSystemConfig
  /\ assetConfigs = [a \in Assets |-> DefaultAssetConfig(a)]
  /\ priceHistory = EmptyMap
  /\ incidentConfirmations = EmptyMap
  /\ timers = <<>>
  /\ live = EmptyMap
  /\ lastResults = EmptyMap
  /\ ingested = 0
  /\ acks = 0
  /\ input = Idle
  /\ output = Idle
  /\ procIdle

storeVars == <<clock, isRunning, nextCycleAt, prices, systemConfig, assetConfigs,
               priceHistory, incidentConfirmations, timers, live, lastResults,
               pc, task, channel>>

\* storage.createIncident as handleDetection, simulateAlert and the sample
\* generator call it
StoreCreate ==
  /\ ingested < MaxStoreCreates
  /\ \E ts \in IncidentTimes :
        incidents' = createIncident(incidents,
           [id |-> 0, type |-> "mispricing", severity |-> CRITICAL, chain |-> "ethereum",
            asset |-> "ETH", timestamp |-> ts, acknowledged |-> FALSE,
            confirmationCount |-> DefaultConfirmationsRequired,
            sentToTelegram |-> TRUE, sentToTwitter |-> FALSE,
            rawSeen |-> DefaultConfirmationsRequired])
  /\ ingested' = ingested + 1
  /\ input' = [done |-> TRUE, op |-> "createIncident", arg |-> 0]
  /\ output' = Idle
  /\ UNCHANGED acks
  /\ UNCHANGED storeVars

\* POST /api/incidents/:id/acknowledge with a known or an unknown id
StoreAcknowledge ==
  /\ acks < MaxStoreAcks
  /\ \E id \in 1..(Len(incidents) + 1) :
        /\ incidents' = acknowledgeIncident(incidents, id)
        /\ input' = [done |-> TRUE, op |-> "acknowledgeIncident", arg |-> id,
                      again |-> id \in 1..Len(incidents) /\ incidents[id].acknowledged]
  /\ acks' = acks + 1
  /\ output' = Returned([success |-> TRUE])
  /\ UNCHANGED ingested
  /\ UNCHANGED storeVars

\* GET /api/incidents
StoreList ==
  /\ \E limit \in ListLimits :
        /\ input' = [done |-> TRUE, op |-> "getIncidents", arg |-> limit]
        /\ output' = Returned(getIncidents(incidents, limit))
  /\ UNCHANGED <<incidents, ingested, acks>>
  /\ UNCHANGED storeVars

NextStore ==
  \/ StoreCreate
  \/ StoreAcknowledge
  \/ StoreList

SpecStore == InitStore /\ [][NextStore]_vars

\* the step is a call of acknowledgeIncident
AckStep == input'.done /\ input'.op = "acknowledgeIncident" /\ acks' = acks + 1

\* C12: acknowledgeIncident(id) never fails; for a known id the incident is
\* acknowledged afterwards and nothing else has changed (no other field, no
\* other incident, no incident added or removed), a second application
\* changes nothing more, and for an unknown id the store is unchanged.
C12_AcknowledgeIdempotent ==
  [][AckStep =>
       LET id == input'.arg
           known == id \in 1..Len(incidents)
       IN /\ output'.done /\ output'.value.success
          /\ Len(incidents') = Len(incidents)
          /\ \A i \in 1..Len(incidents) :
               /\ i # id => incidents'[i] = incidents[i]
               /\ i = id =>
                    /\ incidents'[i].acknowledged
                    /\ \A f \in DOMAIN incidents[i] \ {"acknowledged"} :
                          incidents'[i][f] = incidents[i][f]
          /\ ~known => incidents' = incidents
          /\ (known /\ incidents[id].acknowledged) => incidents' = incidents]_vars

\* the same incident has been acknowledged twice
C12_Witness ==
  /\ acks = 2
  /\ input.done /\ input.op = "acknowledgeIncident"
  /\ input.again
  /\ incidents[input.arg].acknowledged
  /\ Len(incidents) >= 2

\* the result of a list request satisfies the rule for the limit that was asked
ListRule(limit, res) ==
  LET bound == IF limit < 0 THEN 0 ELSE limit
      returned == {res[i].id : i \in 1..Len(res)}
  IN /\ Len(res) <= bound
     /\ Len(res) = IF Len(incidents) < bound THEN Len(incidents) ELSE bound
     /\ Cardinality(returned) = Len(res)
     /\ \A i \in 1..Len(res) : res[i].id \in 1..Len(incidents) /\ incidents[res[i].id] = res[i]
     /\ \A i, j \in 1..Len(res) : i < j => res[i].timestamp >= res[j].timestamp
     /\ \A k \in 1..Len(incidents) :
          k \notin returned =>
            \A i \in 1..Len(res) : incidents[k].timestamp <= res[i].timestamp

\* C13: getIncidents(limit) returns at most limit incidents (100 when no limit
\* is given), newest first, and they are the limit newest incidents of the
\* store: no omitted incident is newer than a returned one.
C13_ListNewestFirstBounded ==
  (input.done /\ input.op = "getIncidents") => ListRule(input.arg, output.value)

\* the same rule for the requests whose limit is not negative
C13_NonNegativeLimit ==
  (input.done /\ input.op = "getIncidents" /\ input.arg >= 0)
     => ListRule(input.arg, output.value)

(***************************************************************************)
(* handleDetection as the async function it is: it creates the incident,   *)
(* awaits TelegramBot.sendIncident, then TwitterService.postIncident       *)
(***************************************************************************)
\* incidents dispatched in a run
MaxDispatches == 2
\* how the fetch of sendIncident ends: response.ok, a response that is not
\* ok, a rejection (network error), or no answer at all (the call passes no
\* timeout and no abort signal)
TelegramFates == {"ok", "rejected", "error", "silent"}
DispatchSeverities == {WARNING, EMERGENCY}
DispatchConfigs ==
  {DefaultSystemConfig,
   [DefaultSystemConfig EXCEPT !.twitterEmergencyOnly = FALSE],
   [DefaultSystemConfig EXCEPT !.telegramEnabled = FALSE]}

InitDispatch ==
  /\ clock = 0
  /\ isRunning = FALSE
  /\ nextCycleAt = 0
  /\ prices = <<>>
  /\ incidents = <<>>
  /\ systemConfig \in DispatchConfigs
  /\ assetConfigs = [a \in Assets |-> DefaultAssetConfig(a)]
  /\ priceHistory = EmptyMap
  /\ incidentConfirmations = EmptyMap
  /\ timers = <<>>
  /\ live = EmptyMap
  /\ lastResults = EmptyMap
  /\ ingested = 0
  /\ acks = 0
  /\ input = Idle
  /\ output = Idle
  /\ pc = [handleDetection |-> "idle", fetchRealOraclePrices |-> "idle"]
  /\ task = NoTask
  /\ \E tg \in BOOLEAN, tw \in BOOLEAN :
        channel = [telegramEnabled |-> tg, twitterEnabled |-> tw, accepted |-> {}]

dispatchVars == <<clock, isRunning, nextCycleAt, prices, systemConfig, assetConfigs,
                  priceHistory, incidentConfirmations, timers, live, lastResults,
                  acks, input, output>>

\* handleDetection up to its first await on a channel
HandleDetection ==
  /\ pc.handleDetection \in {"idle", "done"}
  /\ ingested < MaxDispatches
  /\ \E sev \in DispatchSeverities :
        incidents' = createIncident(incidents,
           [id |-> 0, type |-> "mispricing", severity |-> sev, chain |-> "ethereum",
            asset |-> "ETH", timestamp |-> clock, acknowledged |-> FALSE,
            confirmationCount |-> systemConfig.confirmationsRequired,
            sentToTelegram |-> FALSE, sentToTwitter |-> FALSE,
            rawSeen |-> systemConfig.confirmationsRequired])
  /\ task' = [task EXCEPT !.id = Len(incidents'), !.fate = "none"]
  /\ pc' = [pc EXCEPT !.handleDetection =
               IF systemConfig.telegramEnabled THEN "telegram" ELSE "twitter"]
  /\ ingested' = ingested + 1
  /\ UNCHANGED channel
  /\ UNCHANGED dispatchVars

\* TelegramBot.sendIncident: without credentials it answers true at once,
\* with credentials it posts to the Bot API and waits for the response
SendIncident ==
  /\ pc.handleDetection = "telegram"
  /\ IF ~channel.telegramEnabled
     THEN /\ incidents' = [incidents EXCEPT ![task.id].sentToTelegram = TRUE]
          /\ pc' = [pc EXCEPT !.handleDetection = "twitter"]
          /\ UNCHANGED task
     ELSE /\ \E fate \in TelegramFates : task' = [task EXCEPT !.fate = fate]
          /\ pc' = [pc EXCEPT !.handleDetection = "telegramWait"]
          /\ UNCHANGED incidents
  /\ UNCHANGED <<ingested, channel>>
  /\ UNCHANGED dispatchVars

\* the fetch of sendIncident settles: true for response.ok, false for a
\* response that is not ok and for a caught error
SendIncidentSettles ==
  /\ pc.handleDetection = "telegramWait"
  /\ task.fate # "silent"
  /\ incidents' = [incidents EXCEPT ![task.id].sentToTelegram = (task.fate = "ok")]
  /\ channel' = IF task.fate = "ok"
                THEN [channel EXCEPT !.accepted = @ \cup {<<task.id, "telegram">>}]
                ELSE channel
  /\ pc' = [pc EXCEPT !.handleDetection = "twitter"]
  /\ UNCHANGED <<ingested, task>>
  /\ UNCHANGED dispatchVars

\* the Twitter block of handleDetection: postIncident makes no API call
\* (the call is a TODO), so the endpoint accepts nothing
PostIncident ==
  /\ pc.handleDetection = "twitter"
  /\ LET incident == incidents[task.id]
         shouldTweet == IF systemConfig.twitterEmergencyOnly
                        THEN incident.severity = EMERGENCY ELSE TRUE
     IN incidents' = IF systemConfig.twitterEnabled /\ shouldTweet
                     THEN [incidents EXCEPT ![task.id].sentToTwitter = postIncident(incident)]
                     ELSE incidents
  /\ pc' = [pc EXCEPT !.handleDetection = "done"]
  /\ UNCHANGED <<ingested, task, channel>>
  /\ UNCHANGED dispatchVars

NextDispatch ==
  \/ HandleDetection
  \/ SendIncident
  \/ SendIncidentSettles
  \/ PostIncident

\* the event loop runs every continuation that is ready
SpecDispatch == InitDispatch /\ [][NextDispatch]_vars /\ WF_vars(NextDispatch)

TelegramFailed == task.fate \in {"rejected", "error", "silent"}

TwitterGatePassed ==
  /\ systemConfig.twitterEnabled
  /\ incidents[task.id].severity = EMERGENCY

\* C14: for a confirmed incident with both channels enabled and the Twitter
\* gate passed, a failure of the Telegram send (a rejected request, a thrown
\* error, a send that never answers) does not prevent the Twitter delivery
\* of the same incident.
C14_TelegramFailureIsolated ==
  (pc.handleDetection = "telegramWait" /\ TelegramFailed /\ TwitterGatePassed)
     ~> (pc.handleDetection = "done" /\ incidents[task.id].sentToTwitter)

\* the same for the failures that answer (rejected request, thrown error)
C14_AnsweredFailureIsolated ==
  (pc.handleDetection = "telegramWait" /\ task.fate \in {"rejected", "error"}
     /\ TwitterGatePassed)
     ~> (pc.handleDetection = "done" /\ incidents[task.id].sentToTwitter)

\* C15: every external call has a timeout, so a cycle that has started
\* dispatching an incident reaches the end of the dispatch even when a
\* notification channel never answers.
C15_DispatchCompletes ==
  (pc.handleDetection \in {"telegram", "telegramWait", "twitter"})
     ~> (pc.handleDetection = "done")

\* C16: the delivery flags of an incident are the real outcome: a flag is
\* true only if the channel accepted the message; a dispatch that failed or
\* was not performed for lack of credentials leaves the flag false.
C16_FlagsAreRealOutcome ==
  \A i \in 1..Len(incidents) :
    /\ incidents[i].sentToTelegram => <<i, "telegram">> \in channel.accepted
    /\ incidents[i].sentToTwitter => <<i, "twitter">> \in channel.accepted

(***************************************************************************)
(* Detection ticks while asset configurations are edited through the API   *)
(***************************************************************************)
\* request bodies of POST /api/config/assets/:asset (stored unvalidated)
AssetPatches == {[thresholds |-> Null]}

\* POST /api/config/assets/:asset -> MemStorage.updateAssetConfig
UpdateAssetConfig ==
  /\ \E a \in DOMAIN assetConfigs, patch \in AssetPatches :
        assetConfigs' = [assetConfigs EXCEPT ![a] =
                           [f \in DOMAIN assetConfigs[a] |->
                              IF f \in DOMAIN patch THEN patch[f] ELSE assetConfigs[a][f]]]
  /\ UNCHANGED <<clock, isRunning, nextCycleAt, prices, incidents, systemConfig,
                 priceHistory, incidentConfirmations, timers, live, lastResults,
                 ingested, acks, input, output>>
  /\ UNCHANGED procVars

NextTick ==
  \/ Start
  \/ MonitorTick
  \/ FetchRealOraclePrices
  \/ ConfirmationTimeout
  \/ UpdateAssetConfig
  \/ AdvanceClock

SpecTick == Init /\ [][NextTick]_vars

\* the step is a detection cycle (the initial one or a tick)
CycleStep == nextCycleAt' # nextCycleAt

\* C17: if the detection work of one asset throws in a tick, every other
\* enabled asset of the same snapshot is still analyzed in that tick: after a
\* cycle, every enabled asset of the snapshot whose own analysis does not
\* throw has been analyzed.
C17_FailureOfOneAssetIsolated ==
  [][CycleStep =>
       LET snapshot == getLatestPrices(prices)
       IN \A e \in 1..Len(snapshot) :
            (/\ MapHas(assetConfigs, snapshot[e].asset)
             /\ assetConfigs[snapshot[e].asset].enabled
             /\ ~analysisThrows(snapshot[e].chains, assetConfigs[snapshot[e].asset]))
              => MapHas(lastResults', snapshot[e].asset)]_vars

\* ticks keep running after a cycle in which an analysis threw
C17_LaterTicksRun ==
  [][CycleStep => isRunning' /\ nextCycleAt' = clock + intervalMs]_vars

(***************************************************************************)
(* Sources, store keys and history keys                                    *)
(***************************************************************************)
\* every observation a price store holds
StoredPrices(store) ==
  {store[e].chains[c] : <<e, c>> \in {x \in (1..Len(store)) \X (1..Len(Chains)) :
                                        x[2] <= Len(store[x[1]].chains)}}

SourceOf(fetched) == {fetched[i] : i \in 1..Len(fetched)}

\* C18: when one source's fetch fails in an ingestion cycle, every price the
\* other source returned is written to the price store, and the prices the
\* failing source had stored before are neither removed nor altered.
C18_SourceFailureIsolated ==
  [][ingested' = ingested + 1 =>
       \A pyth \in PythAnswers, redstone \in RedStoneAnswers :
         LET fromPyth == pythPrices(pyth, clock)
             fromRedStone == redstonePrices(redstone, clock)
         IN (prices' = updatePrices(prices, fromPyth \o fromRedStone)) =>
              /\ (pyth = EmptyMap /\ redstone # EmptyMap) =>
                    /\ SourceOf(fromRedStone) \subseteq StoredPrices(prices')
                    /\ {p \in StoredPrices(prices) : p.source = "Pyth"}
                          \subseteq StoredPrices(prices')
              /\ (redstone = EmptyMap /\ pyth # EmptyMap) =>
                    /\ SourceOf(fromPyth) \subseteq StoredPrices(prices')
                    /\ {p \in StoredPrices(prices) : p.source = "redstone"}
                          \subseteq StoredPrices(prices')]_vars

\* the part of C18 about the source that answers
C18_AnsweringSourceStored ==
  [][ingested' = ingested + 1 =>
       \A pyth \in PythAnswers, redstone \in RedStoneAnswers :
         LET fromPyth == pythPrices(pyth, clock)
             fromRedStone == redstonePrices(redstone, clock)
         IN (prices' = updatePrices(prices, fromPyth \o fromRedStone)) =>
              /\ (pyth = EmptyMap) => SourceOf(fromRedStone) \subseteq StoredPrices(prices')
              /\ (redstone = EmptyMap) => SourceOf(fromPyth) \subseteq StoredPrices(prices')]_vars

\* every history holds observations of one source only
HistoriesOfOneSource ==
  \A key \in DOMAIN priceHistory :
     \A i, j \in 1..Len(priceHistory[key]) :
        priceHistory[key][i].source = priceHistory[key][j].source

\* a stored observation is replaced only by an observation of its own source
ReplacedBySameSource ==
  \A p \in StoredPrices(prices) : \A q \in StoredPrices(prices') :
     (q.asset = p.asset /\ q.chain = p.chain) => q.source = p.source

\* C20: price history is kept per (asset, source): every history holds
\* observations of one source only (so the flash-swing max/min of a history is
\* never taken over two sources), and the latest observation of a source is
\* never overwritten by an observation of another source.
C20_HistoryPerSource ==
  [](HistoriesOfOneSource) /\ [][ReplacedBySameSource]_vars

(***************************************************************************)
(* Ingestion cycle, step by step                                           *)
(***************************************************************************)
\* a PromiseSettledResult; the adapters catch their own errors and answer [],
\* so a fetch task is never rejected
Pending == [status |-> "pending"]

Fulfilled(v) == [status |-> "fulfilled", value |-> v]

\* continuations of fetchRealOraclePrices wait on the microtask queue: the
\* one after Promise.allSettled once both tasks have settled, and the one after
\* every `await storage.updatePrice(price)` (an async method that awaits nothing)
MicrotasksPending ==
  \/ pc.fetchRealOraclePrices = "storing"
  \/ /\ pc.fetchRealOraclePrices = "fetching"
     /\ task.pyth # Pending
     /\ task.redstone # Pending

\* a store whose write waits for I/O, so that callbacks run between two writes
EventLoopFree_StoreYields == TRUE

\* the event loop takes the next callback (timer, I/O) only when the microtask
\* queue is empty
EventLoopFree == ~MicrotasksPending

\* a tick of priceUpdateInterval: both fetch tasks are started
FetchStarts ==
  /\ EventLoopFree
  /\ isRunning
  /\ pc.fetchRealOraclePrices = "idle"
  /\ ingested < MaxIngest
  /\ ingested' = ingested + 1
  /\ pc' = [pc EXCEPT !.fetchRealOraclePrices = "fetching"]
  /\ task' = [id |-> ingested + 1, fate |-> "none", pending |-> <<>>,
              pyth |-> Pending, redstone |-> Pending]
  /\ UNCHANGED <<clock, isRunning, nextCycleAt, prices, incidents, systemConfig,
                 assetConfigs, priceHistory, incidentConfirmations, timers, live,
                 lastResults, acks, input, output, channel>>

\* pythAdapter.fetchMultiplePrices settles
PythSettles ==
  /\ EventLoopFree
  /\ pc.fetchRealOraclePrices = "fetching"
  /\ task.pyth = Pending
  /\ \E pyth \in PythAnswers :
        task' = [task EXCEPT !.pyth = Fulfilled(pythPrices(pyth, clock))]
  /\ UNCHANGED <<clock, isRunning, nextCycleAt, prices, incidents, systemConfig,
                 assetConfigs, priceHistory, incidentConfirmations, timers, live,
                 lastResults, ingested, acks, input, output, pc, channel>>

\* redstoneAdapter.fetchPrices settles
RedStoneSettles ==
  /\ EventLoopFree
  /\ pc.fetchRealOraclePrices = "fetching"
  /\ task.redstone = Pending
  /\ \E redstone \in RedStoneAnswers :
        task' = [task EXCEPT !.redstone = Fulfilled(redstonePrices(redstone, clock))]
  /\ UNCHANGED <<clock, isRunning, nextCycleAt, prices, incidents, systemConfig,
                 assetConfigs, priceHistory, incidentConfirmations, timers, live,
                 lastResults, ingested, acks, input, output, pc, channel>>

\* the continuation of `await Promise.allSettled([...])`: Pyth's prices are
\* pushed first, then RedStone's, and the store loop runs up to its first await
JoinFetches ==
  /\ pc.fetchRealOraclePrices = "fetching"
  /\ task.pyth # Pending
  /\ task.redstone # Pending
  /\ LET fetchedPrices == task.pyth.value \o task.redstone.value
     IN IF fetchedPrices = <<>>
        THEN /\ pc' = [pc EXCEPT !.fetchRealOraclePrices = "idle"]
             /\ task' = NoTask
             /\ UNCHANGED prices
        ELSE /\ pc' = [pc EXCEPT !.fetchRealOraclePrices = "storing"]
             /\ task' = [task EXCEPT !.pending = Tail(fetchedPrices)]
             /\ prices' = updatePrice(prices, Head(fetchedPrices))
  /\ UNCHANGED <<clock, isRunning, nextCycleAt, incidents, systemConfig,
                 assetConfigs, priceHistory, incidentConfirmations, timers, live,
                 lastResults, ingested, acks, input, output, channel>>

\* the continuation of `await storage.updatePrice(price)`: the next price is
\* stored
StorePrice ==
  /\ pc.fetchRealOraclePrices = "storing"
  /\ task.pending # <<>>
  /\ prices' = updatePrice(prices, Head(task.pending))
  /\ task' = [task EXCEPT !.pending = Tail(@)]
  /\ UNCHANGED <<clock, isRunning, nextCycleAt, incidents, systemConfig,
                 assetConfigs, priceHistory, incidentConfirmations, timers, live,
                 lastResults, ingested, acks, input, output, pc, channel>>

\* the continuation of the last await: the loop ends and the function returns
FetchReturns ==
  /\ pc.fetchRealOraclePrices = "storing"
  /\ task.pending = <<>>
  /\ pc' = [pc EXCEPT !.fetchRealOraclePrices = "idle"]
  /\ task' = NoTask
  /\ UNCHANGED <<clock, isRunning, nextCycleAt, prices, incidents, systemConfig,
                 assetConfigs, priceHistory, incidentConfirmations, timers, live,
                 lastResults, ingested, acks, input, output, channel>>

\* the callbacks of monitoringInterval and of the confirmation timers, taken
\* by the event loop.  monitorCycle reads its snapshot (getLatestPrices copies
\* the maps) before its first wait on I/O and does not read the store again.
DetectionTick == EventLoopFree /\ MonitorTick

TimeoutTick == EventLoopFree /\ ConfirmationTimeout

NextIngest ==
  \/ Start
  \/ DetectionTick
  \/ TimeoutTick
  \/ FetchStarts
  \/ PythSettles
  \/ RedStoneSettles
  \/ JoinFetches
  \/ StorePrice
  \/ FetchReturns
  \/ AdvanceClock

SpecIngest == Init /\ [][NextIngest]_vars

\* an ingestion cycle has written some of its observations and not yet all
PartlyWritten ==
  /\ pc.fetchRealOraclePrices = "storing"
  /\ task.pending # <<>>

NextIncident ==
  \/ HandleDetection
  \/ SendIncident
  \/ SendIncidentSettles
  \/ PostIncident
  \/ AcknowledgeIncident

SpecIncident == InitDispatch /\ [][NextIncident]_vars

MutableIncidentFields == {"acknowledged", "sentToTelegram", "sentToTwitter"}

\* C21: once an incident is created it is never removed and its id, type,
\* severity, asset, chain, timestamp and evidence never change; only
\* acknowledged and the delivery flags change afterwards, and acknowledged
\* never goes from true back to false.
C21_IncidentImmutable ==
  [][/\ Len(incidents') >= Len(incidents)
     /\ \A i \in 1..Len(incidents) :
          /\ DOMAIN incidents'[i] = DOMAIN incidents[i]
          /\ \A f \in DOMAIN incidents[i] \ MutableIncidentFields :
                incidents'[i][f] = incidents[i][f]
          /\ incidents[i].acknowledged => incidents'[i].acknowledged]_vars

\* an incident acknowledged and marked as delivered after its creation, with
\* a second incident created after it
C21_Witness ==
  /\ Len(incidents) = 2
  /\ incidents[1].acknowledged
  /\ incidents[1].sentToTelegram
  /\ incidents[1].sentToTwitter
  /\ incidents[2].severity # incidents[1].severity

(***************************************************************************)
(* Removal of confirmation counters                                        *)
(***************************************************************************)
\* the step creates an incident of key k
ConfirmedInStep(k) ==
  \E i \in (Len(incidents) + 1)..Len(incidents') :
     ConfirmationKey(incidents'[i].asset, incidents'[i].type) = k

\* C22: a confirmation counter is removed only at confirmation or when 30
\* seconds have passed since that counter's own creation, never earlier: not
\* by an expiry timer that an earlier detection of the key scheduled.
C22_CounterRemovedOnlyWhenDue ==
  [][\A k \in DOMAIN incidentConfirmations :
       k \notin DOMAIN incidentConfirmations' =>
          \/ ConfirmedInStep(k)
          \/ clock - live[k].createdAt >= CONFIRMATION_TIMEOUT_MS]_vars

\* the removals of the first counter of a key
C22_FirstCounterRemovedWhenDue ==
  [][\A k \in DOMAIN incidentConfirmations :
       (k \notin DOMAIN incidentConfirmations' /\ live[k].generation = 1) =>
          clock - live[k].createdAt >= CONFIRMATION_TIMEOUT_MS]_vars

(***************************************************************************)
(* Detection cycles as the async functions they are: a cycle runs until it *)
(* waits for the Telegram send of handleDetection, and the timers keep     *)
(* firing while it waits                                                   *)
(***************************************************************************)
\* detection cycles started in a run
MaxCycles == 3

\* ETH at three prices of which two are flagged as mispriced in one cycle
CyclePrices == <<100, 130, 160>>

CycleStore ==
  <<[asset |-> "ETH",
     chains |-> [i \in 1..Len(Chains) |->
                   OraclePrice("ETH", Chains[i], CyclePrices[i], 0, "redstone")]]>>

\* the state after construction, prices of one ingestion cycle stored
InitCycles ==
  /\ clock = 0
  /\ isRunning = FALSE
  /\ nextCycleAt = 0
  /\ prices = CycleStore
  /\ incidents = <<>>
  /\ systemConfig = DefaultSystemConfig
  /\ assetConfigs = [a \in Assets |-> DefaultAssetConfig(a)]
  /\ priceHistory = EmptyMap
  /\ incidentConfirmations = EmptyMap
  /\ timers = <<>>
  /\ live = EmptyMap
  /\ lastResults = EmptyMap
  /\ ingested = 0
  /\ acks = 0
  /\ input = Idle
  /\ output = Idle
  /\ pc = [handleDetection |-> "idle", fetchRealOraclePrices |-> "idle"]
  /\ task = NoTask
  /\ \E tg \in BOOLEAN :
        channel = [telegramEnabled |-> tg, twitterEnabled |-> FALSE, accepted |-> {}]

\* the detection cycles in progress
cycles == task.pending

\* a cycle that is not waiting for a channel
Runnable(c) == cycles[c].waiting = 0

\* the event loop takes a timer or an I/O callback only when no continuation
\* is ready
NoCycleRunnable == \A c \in 1..Len(cycles) : ~Runnable(c)

\* setInterval(() => this.monitorCycle()...): the callback asks nothing
MayStartCycle == TRUE

\* monitorCycle up to the loop over the snapshot
newCycle == [assets |-> getLatestPrices(prices), asset |-> "none", results |-> <<>>,
             waiting |-> 0]

\* start(): installs the timers and calls the initial monitorCycle
StartCycle ==
  /\ ~isRunning
  /\ task.id < MaxCycles
  /\ isRunning' = TRUE
  /\ nextCycleAt' = clock + intervalMs
  /\ task' = [task EXCEPT !.id = @ + 1, !.pending = Append(@, newCycle)]
  /\ UNCHANGED <<clock, prices, incidents, systemConfig, assetConfigs, priceHistory,
                 incidentConfirmations, timers, live, lastResults, ingested, acks,
                 input, output, pc, channel>>

\* a tick of monitoringInterval
TickCycle ==
  /\ isRunning
  /\ NoCycleRunnable
  /\ MayStartCycle
  /\ clock = nextCycleAt
  /\ task.id < MaxCycles
  /\ nextCycleAt' = clock + intervalMs
  /\ task' = [task EXCEPT !.id = @ + 1, !.pending = Append(@, newCycle)]
  /\ UNCHANGED <<clock, isRunning, prices, incidents, systemConfig, assetConfigs,
                 priceHistory, incidentConfirmations, timers, live, lastResults,
                 ingested, acks, input, output, pc, channel>>

\* the next asset of the snapshot: skipped, or analyzed
AnalyzeAsset ==
  \E c \in 1..Len(cycles) :
    /\ Runnable(c)
    /\ cycles[c].results = <<>>
    /\ cycles[c].assets # <<>>
    /\ LET multiPrice == Head(cycles[c].assets)
           asset == multiPrice.asset
           skipped == assetSkipped(assetConfigs, asset)
           a == analyzePrices(asset, multiPrice.chains, assetConfigs[asset], clock,
                              priceHistory)
       IN IF skipped
          THEN /\ task' = [task EXCEPT !.pending[c].assets = Tail(@)]
               /\ UNCHANGED <<priceHistory, lastResults>>
          ELSE /\ task' = [task EXCEPT !.pending[c].assets = Tail(@),
                                       !.pending[c].asset = asset,
                                       !.pending[c].results = a.results]
               /\ priceHistory' = a.hist
               /\ lastResults' = MapSet(lastResults, asset, a.results)
    /\ UNCHANGED <<clock, isRunning, nextCycleAt, prices, incidents, systemConfig,
                   assetConfigs, incidentConfirmations, timers, live, ingested, acks,
                   input, output, pc, channel>>

\* the delivery flags handleDetection sets once the Telegram send has answered
dispatched(incident, config, telegramSent) ==
  LET afterTelegram == IF config.telegramEnabled
                       THEN [incident EXCEPT !.sentToTelegram = telegramSent]
                       ELSE incident
      shouldTweet == IF config.twitterEmergencyOnly
                     THEN incident.severity = EMERGENCY ELSE TRUE
  IN IF config.twitterEnabled /\ shouldTweet
     THEN [afterTelegram EXCEPT !.sentToTwitter = postIncident(incident)]
     ELSE afterTelegram

\* the next result of the asset: shouldCreateIncident, and for a confirmed
\* detection handleDetection up to the Telegram send (a bot without
\* credentials answers at once, a bot with credentials fetches)
CheckResult ==
  \E c \in 1..Len(cycles) :
    /\ Runnable(c)
    /\ cycles[c].results # <<>>
    /\ LET result == Head(cycles[c].results)
           asset == cycles[c].asset
           s1 == shouldCreateIncident(cycleState, asset, result.type,
                                      systemConfig.confirmationsRequired, clock)
           rawSeen == s1.live[ConfirmationKey(asset, result.type)].detections
           waits == s1.ok /\ systemConfig.telegramEnabled /\ channel.telegramEnabled
           created == handleDetection(incidents, asset, result,
                         [systemConfig EXCEPT !.telegramEnabled = FALSE,
                                              !.twitterEnabled = FALSE],
                         clock, FALSE, rawSeen)
       IN /\ incidentConfirmations' = s1.conf
          /\ timers' = s1.timers
          /\ live' = s1.live
          /\ incidents' = IF ~s1.ok THEN incidents
                          ELSE IF waits THEN created
                          ELSE [created EXCEPT ![Len(created)] =
                                  dispatched(@, systemConfig, TRUE)]
          /\ task' = [task EXCEPT !.pending[c].results = Tail(@),
                                  !.pending[c].waiting =
                                     IF waits THEN Len(created) ELSE 0]
    /\ UNCHANGED <<clock, isRunning, nextCycleAt, prices, systemConfig, assetConfigs,
                   priceHistory, lastResults, ingested, acks, input, output, pc,
                   channel>>

\* the fetch of sendIncident answers and handleDetection runs to its end
SendSettles ==
  /\ NoCycleRunnable
  /\ \E c \in 1..Len(cycles), telegramSent \in BOOLEAN :
        /\ incidents' = [incidents EXCEPT ![cycles[c].waiting] =
                            dispatched(@, systemConfig, telegramSent)]
        /\ task' = [task EXCEPT !.pending[c].waiting = 0]
  /\ UNCHANGED <<clock, isRunning, nextCycleAt, prices, systemConfig, assetConfigs,
                 priceHistory, incidentConfirmations, timers, live, lastResults,
                 ingested, acks, input, output, pc, channel>>

\* the loop over the snapshot is over: the cycle ends
CycleEnds ==
  /\ \E c \in 1..Len(cycles) :
        /\ Runnable(c)
        /\ cycles[c].results = <<>>
        /\ cycles[c].assets = <<>>
        /\ task' = [task EXCEPT !.pending =
                       SubSeq(@, 1, c - 1) \o SubSeq(@, c + 1, Len(@))]
  /\ UNCHANGED <<clock, isRunning, nextCycleAt, prices, incidents, systemConfig,
                 assetConfigs, priceHistory, incidentConfirmations, timers, live,
                 lastResults, ingested, acks, input, output, pc, channel>>

\* the callback of a confirmation timer, taken by the event loop
TimeoutCycle ==
  /\ NoCycleRunnable
  /\ timers # <<>>
  /\ Head(timers).due <= clock
  /\ incidentConfirmations' = MapDelete(incidentConfirmations, Head(timers).key)
  /\ live' = IF MapHas(incidentConfirmations, Head(timers).key)
             THEN [live EXCEPT ![Head(timers).key].detections = 0]
             ELSE live
  /\ timers' = Tail(timers)
  /\ UNCHANGED <<clock, isRunning, nextCycleAt, prices, incidents, systemConfig,
                 assetConfigs, priceHistory, lastResults, ingested, acks, input,
                 output, pc, task, channel>>

\* time passes while no continuation is ready
ClockCycle ==
  /\ NoCycleRunnable
  /\ NextDue > clock
  /\ NextDue <= MaxClock
  /\ clock' = NextDue
  /\ UNCHANGED <<isRunning, nextCycleAt, prices, incidents, systemConfig, assetConfigs,
                 priceHistory, incidentConfirmations, timers, live, lastResults,
                 ingested, acks, input, output, pc, task, channel>>

NextCycles ==
  \/ StartCycle
  \/ TickCycle
  \/ AnalyzeAsset
  \/ CheckResult
  \/ SendSettles
  \/ CycleEnds
  \/ TimeoutCycle
  \/ ClockCycle

SpecCycles == InitCycles /\ [][NextCycles]_vars

\* the step is a call of shouldCreateIncident (it schedules an expiry)
CountStep == Len(timers') = Len(timers) + 1

\* C23: every raw detection outcome of a key changes that key's counter by
\* exactly +1 (creating it at 1 when absent) as one step and leaves every
\* other counter alone, also when several outcomes of one type occur in a
\* cycle and when two detection cycles interleave; no increment is lost: the
\* counter is the number of raw detections since its creation.
C23_CounterIncrementAtomic ==
  [][CountStep =>
       LET k == timers'[Len(timers')].key
       IN /\ incidentConfirmations'[k] = currentCount(incidentConfirmations, k) + 1
          /\ DOMAIN incidentConfirmations' = DOMAIN incidentConfirmations \cup {k}
          /\ \A j \in DOMAIN incidentConfirmations :
                j # k => incidentConfirmations'[j] = incidentConfirmations[j]
          /\ incidentConfirmations'[k] = live'[k].detections]_vars

\* two cycles are in progress and both wait for the send of an incident, the
\* second having counted while the first was waiting; the counter of a key
\* has been raised twice within one cycle
C23_Witness ==
  /\ Len(cycles) = 2
  /\ cycles[1].waiting # 0
  /\ cycles[2].waiting # 0
  /\ \E k \in DOMAIN incidentConfirmations :
        /\ incidentConfirmations[k] >= 4
        /\ \E i, j \in IncidentIds :
              /\ i # j
              /\ ConfirmationKey(incidents[i].asset, incidents[i].type) = k
              /\ ConfirmationKey(incidents[j].asset, incidents[j].type) = k
              /\ incidents[i].timestamp = incidents[j].timestamp

\* C24: at most one detection cycle is in progress at any time: a tick never
\* starts a cycle while the initial cycle of start() or the cycle of an
\* earlier tick is still waiting for storage or for a channel.
C24_SingleCycleInProgress == Len(cycles) <= 1

(***************************************************************************)
(* Who writes the price histories                                          *)
(***************************************************************************)
\* C25: price histories are changed only by ingesting a new observation, and
\* a detection pass over an unchanged snapshot leaves them unchanged, so each
\* ingested observation occurs at most once in its history: a history never
\* holds more entries than there were ingestion cycles (a cycle stores at
\* most one observation per asset and chain).
C25_ObservationRecordedOnce ==
  \A key \in DOMAIN priceHistory : Len(priceHistory[key]) <= ingested

(***************************************************************************)
(* The Twitter gate                                                        *)
(***************************************************************************)
\* the gate SystemConfig describes
TwitterGate(incident) ==
  /\ systemConfig.twitterEnabled
  /\ ~systemConfig.twitterEmergencyOnly \/ incident.severity = EMERGENCY

\* C26: a confirmed incident is marked sentToTwitter iff twitterEnabled and
\* (twitterEmergencyOnly is false or its severity is Emergency): with
\* twitterEmergencyOnly = false incidents of every severity are posted.
C26_TwitterGateFollowsConfig ==
  pc.handleDetection = "done" =>
     (incidents[task.id].sentToTwitter <=> TwitterGate(incidents[task.id]))

\* the half of C26 about twitterEmergencyOnly = true
C26_EmergencyOnlyRespected ==
  \A i \in 1..Len(incidents) :
     (systemConfig.twitterEmergencyOnly /\ incidents[i].severity # EMERGENCY)
        => ~incidents[i].sentToTwitter

(***************************************************************************)
(* The reference price: median and MAD of a sample                         *)
(***************************************************************************)
\* the statistics block of performStatisticalAnalysis: median and mad
MedianCall ==
  /\ ~output.done
  /\ LET values == MapSeq(input.prices, LAMBDA p : p.price)
     IN output' = Returned([median |-> median(values), mad |-> mad(values)])
  /\ UNCHANGED <<clock, priceHistory, ingested, input>>
  /\ UNCHANGED engineVars

NextMedian == MedianCall

SpecMedian == InitStats /\ [][NextMedian]_vars

\* the k-th smallest element of f (k from 1), by counting
KthSmallest(f, k) ==
  CHOOSE m \in {f[i] : i \in 1..Len(f)} :
    /\ Cardinality({i \in 1..Len(f) : f[i] < m}) < k
    /\ Cardinality({i \in 1..Len(f) : f[i] <= m}) >= k

\* C27: the median is the element at index floor(n/2) of the ascending order
\* (0-indexed; for an even n the upper of the two middle values, never their
\* average), and the MAD is the element at index floor(n/2) of the ascending
\* order of the absolute deviations from that median.
C27_MedianIsUpperMiddle ==
  output.done =>
    LET v == ValuesOf(input.prices)
        n == Len(v)
        m == KthSmallest(v, (n \div 2) + 1)
        dev == [i \in 1..n |-> Abs(v[i] - m)]
    IN /\ output.value.median = m
       /\ output.value.mad = KthSmallest(dev, (n \div 2) + 1)
       /\ (n % 2 = 0) => output.value.median >= KthSmallest(v, n \div 2)
       /\ v = <<100, 101, 102, 130>> => output.value.median = 102

\* a sample of even size whose two middle values differ: the median is the
\* upper one, and it is not their average
C27_Witness ==
  /\ output.done
  /\ ValuesOf(input.prices) = <<130, 100, 102, 101>>
  /\ output.value.median = 102
  /\ output.value.mad = 2

(***************************************************************************)
(* The divisor of the standard deviation                                   *)
(***************************************************************************)
\* stdDev / mean * 10000 > k for the sample standard deviation: the variance
\* is (n * sum(v^2) - sum(v)^2) / (n * (n - 1))
SampleSpreadAbove(v, k) ==
  LET n == Len(v)
      s1 == SumSeq(v)
      s2 == SumSeq([i \in 1..n |-> v[i] * v[i]])
  IN 400 * n * (n * s2 - s1 * s1) > (n - 1) * (k \div 500) * (k \div 500) * s1 * s1

\* C28: the standard deviation behind the divergence decision is the sample
\* standard deviation (divisor n - 1): Divergence fires exactly when the
\* sample standard deviation of the cycle's prices exceeds 10% of the mean.
C28_DivergenceOnSampleStdDev ==
  output.done =>
    LET v == ValuesOf(input.prices)
        div == OfType(output.value, "divergence")
    IN (Len(div) = 1) <=> SampleSpreadAbove(v, DIVERGENCE_BPS)

(***************************************************************************)
(* Assets the detection pass skips                                         *)
(***************************************************************************)
\* prices of an asset on the three chains: in agreement, and spread so that
\* the analysis flags them
SkipPrices == {<<100, 100, 100>>, <<100, 130, 160>>}

\* what an ingestion cycle stores for an asset
SkipObservations(asset, values) ==
  [i \in 1..Len(Chains) |-> OraclePrice(asset, Chains[i], values[i], 0, "redstone")]

\* the state after construction with the prices of one ingestion cycle
\* stored: ETH, enabled or disabled through the configuration route, and
\* LINK, which RedStone serves and which has no AssetConfig
InitSkip ==
  /\ clock = 0
  /\ isRunning = FALSE
  /\ nextCycleAt = 0
  /\ \E first \in 1..2, eth \in SkipPrices, link \in SkipPrices :
        prices = updatePrices(<<>>,
                    IF first = 1
                    THEN SkipObservations("ETH", eth) \o SkipObservations("LINK", link)
                    ELSE SkipObservations("LINK", link) \o SkipObservations("ETH", eth))
  /\ incidents = <<>>
  /\ systemConfig = DefaultSystemConfig
  /\ \E on \in BOOLEAN :
        assetConfigs = [a \in Assets |->
                          IF a = "ETH" THEN [DefaultAssetConfig(a) EXCEPT !.enabled = on]
                          ELSE DefaultAssetConfig(a)]
  /\ priceHistory = EmptyMap
  /\ incidentConfirmations = EmptyMap
  /\ timers = <<>>
  /\ live = EmptyMap
  /\ lastResults = EmptyMap
  /\ ingested = 0
  /\ acks = 0
  /\ input = Idle
  /\ output = Idle
  /\ procIdle

\* POST /api/config/assets/:asset with a body that sets enabled
SetAssetEnabled ==
  /\ \E a \in DOMAIN assetConfigs, on \in BOOLEAN :
        /\ assetConfigs[a].enabled # on
        /\ assetConfigs' = [assetConfigs EXCEPT ![a].enabled = on]
  /\ UNCHANGED <<clock, isRunning, nextCycleAt, prices, incidents, systemConfig,
                 priceHistory, incidentConfirmations, timers, live, lastResults,
                 ingested, acks, input, output>>
  /\ UNCHANGED procVars

NextSkip ==
  \/ Start
  \/ MonitorTick
  \/ ConfirmationTimeout
  \/ SetAssetEnabled
  \/ AdvanceClock

SpecSkip == InitSkip /\ [][NextSkip]_vars

\* the detection pass leaves everything of asset a as it was
UntouchedBy(a) ==
  /\ \A key \in DOMAIN priceHistory' :
        key[1] = a => (key \in DOMAIN priceHistory /\ priceHistory'[key] = priceHistory[key])
  /\ \A key \in DOMAIN incidentConfirmations' :
        key[1] = a => /\ key \in DOMAIN incidentConfirmations
                      /\ incidentConfirmations'[key] = incidentConfirmations[key]
  /\ \A i \in 1..Len(incidents') :
        incidents'[i].asset = a => (i <= Len(incidents) /\ incidents'[i] = incidents[i])
  /\ \A i \in 1..Len(timers') :
        timers'[i].key[1] = a => (i <= Len(timers) /\ timers'[i] = timers[i])

\* the asset has no AssetConfig, or one whose enabled is false
NotMonitored(a) == a \notin DOMAIN assetConfigs \/ assetConfigs[a].enabled = FALSE

\* C29: an asset with no AssetConfig or with enabled = false is skipped by the
\* detection pass: the pass leaves the asset's price histories, its
\* confirmation counters and the incident store unchanged with respect to
\* that asset, whatever its prices are.
C29_SkippedAssetUntouched ==
  [][CycleStep =>
       \A e \in 1..Len(prices) :
          NotMonitored(prices[e].asset) => UntouchedBy(prices[e].asset)]_vars

\* ETH, disabled after it has raised incidents, and LINK, which has no
\* configuration, both carry prices that would be flagged
C29_Witness ==
  /\ isRunning
  /\ clock >= 3 * intervalMs
  /\ ~assetConfigs["ETH"].enabled
  /\ \E i \in 1..Len(incidents) : incidents[i].asset = "ETH"
  /\ \E e \in 1..Len(prices) :
        /\ prices[e].asset = "LINK"
        /\ prices[e].chains[3].price = 160
  /\ \A key \in DOMAIN priceHistory : key[1] # "LINK"

(***************************************************************************)
(* start() and stop(): the interval timers of the service                  *)
(***************************************************************************)
\* calls of start() that install timers
MaxStarts == 2

\* the timers of the run: task.pending is the list of active intervals the
\* runtime holds (handle, callback, due time of the next tick), task.id the
\* last handle setInterval returned, and monitoringInterval and
\* priceUpdateInterval are the two fields of the service (0 for null)
NoTimers == [id |-> 0, fate |-> "none", pending |-> <<>>,
             monitoringInterval |-> 0, priceUpdateInterval |-> 0]

InitLifecycle ==
  /\ clock = 0
  /\ isRunning = FALSE
  /\ nextCycleAt = 0
  /\ prices = <<>>
  /\ incidents = <<>>
  /\ systemConfig = DefaultSystemConfig
  /\ assetConfigs = [a \in Assets |-> DefaultAssetConfig(a)]
  /\ priceHistory = EmptyMap
  /\ incidentConfirmations = EmptyMap
  /\ timers = <<>>
  /\ live = EmptyMap
  /\ lastResults = EmptyMap
  /\ ingested = 0
  /\ acks = 0
  /\ input = Idle
  /\ output = Idle
  /\ pc = [handleDetection |-> "idle", fetchRealOraclePrices |-> "idle"]
  /\ task = NoTimers
  /\ channel = [telegramEnabled |-> FALSE, twitterEnabled |-> FALSE, accepted |-> {}]

\* a start() that does not look at isRunning
alreadyRunning_Unchecked == FALSE

\* if (this.isRunning) return
alreadyRunning == isRunning

\* clearInterval(handle)
clearInterval(active, handle) == SelectSeq(active, LAMBDA t : t.handle # handle)

\* start(): returns at once when running; else installs the two intervals
\* and runs the initial monitorCycle
StartService ==
  /\ input' = [done |-> TRUE, op |-> "start", again |-> isRunning]
  /\ IF alreadyRunning
     THEN UNCHANGED <<isRunning, task, priceHistory, incidentConfirmations, timers,
                      live, incidents, lastResults>>
     ELSE /\ task.id < 2 * MaxStarts
          /\ isRunning' = TRUE
          /\ task' = [task EXCEPT
                !.id = @ + 2,
                !.monitoringInterval = task.id + 1,
                !.priceUpdateInterval = task.id + 2,
                !.pending = @ \o
                   <<[handle |-> task.id + 1, callback |-> "monitorCycle",
                      due |-> clock + intervalMs],
                     [handle |-> task.id + 2, callback |-> "fetchRealOraclePrices",
                      due |-> clock]>>]
          /\ \E telegramSent \in TelegramOutcomes : monitorCycle(telegramSent)
  /\ UNCHANGED <<clock, nextCycleAt, prices, systemConfig, assetConfigs, ingested,
                 acks, output, pc, channel>>

\* stop(): clears the two intervals the fields name
StopService ==
  /\ input' = [done |-> TRUE, op |-> "stop", again |-> ~isRunning]
  /\ isRunning' = FALSE
  /\ task' = [task EXCEPT
        !.pending = clearInterval(clearInterval(@, task.monitoringInterval),
                                  task.priceUpdateInterval),
        !.monitoringInterval = 0,
        !.priceUpdateInterval = 0]
  /\ UNCHANGED <<clock, nextCycleAt, prices, incidents, systemConfig, assetConfigs,
                 priceHistory, incidentConfirmations, timers, live, lastResults,
                 ingested, acks, output, pc, channel>>

\* a tick of an active interval whose callback is monitorCycle
DetectionTimerTick ==
  /\ \E i \in 1..Len(task.pending) :
        /\ task.pending[i].callback = "monitorCycle"
        /\ task.pending[i].due = clock
        /\ task' = [task EXCEPT !.pending[i].due = clock + intervalMs]
  /\ \E telegramSent \in TelegramOutcomes : monitorCycle(telegramSent)
  /\ UNCHANGED <<clock, isRunning, nextCycleAt, prices, systemConfig, assetConfigs,
                 ingested, acks, input, output, pc, channel>>

\* a tick of an active interval whose callback is fetchRealOraclePrices, in
\* which Pyth delivers
IngestionTimerTick ==
  /\ \E i \in 1..Len(task.pending) :
        task.pending[i].callback = "fetchRealOraclePrices"
  /\ ingested < MaxIngest
  /\ \E pyth \in PythAnswers \ {EmptyMap}, redstone \in RedStoneAnswers :
        /\ prices' = updatePrices(prices,
                        pythPrices(pyth, clock) \o redstonePrices(redstone, clock))
  /\ ingested' = ingested + 1
  /\ UNCHANGED <<clock, isRunning, nextCycleAt, incidents, systemConfig, assetConfigs,
                 priceHistory, incidentConfirmations, timers, live, lastResults,
                 acks, input, output, pc, task, channel>>

\* time passes up to the next tick of a detection interval or the next
\* confirmation timer
LifecycleDue ==
  LET due == {task.pending[i].due :
                 i \in {j \in 1..Len(task.pending) :
                          task.pending[j].callback = "monitorCycle"}}
             \cup (IF timers # <<>> THEN {Head(timers).due} ELSE {})
  IN IF due = {} THEN -1 ELSE CHOOSE d \in due : \A e \in due : d <= e

LifecycleClock ==
  /\ LifecycleDue > clock
  /\ LifecycleDue <= MaxClock
  /\ clock' = LifecycleDue
  /\ UNCHANGED <<isRunning, nextCycleAt, prices, incidents, systemConfig, assetConfigs,
                 priceHistory, incidentConfirmations, timers, live, lastResults,
                 ingested, acks, input, output, pc, task, channel>>

NextLifecycle ==
  \/ StartService
  \/ StopService
  \/ DetectionTimerTick
  \/ IngestionTimerTick
  \/ ConfirmationTimeout
  \/ LifecycleClock

SpecLifecycle == InitLifecycle /\ [][NextLifecycle]_vars

ActiveTimers(callback) ==
  {i \in 1..Len(task.pending) : task.pending[i].callback = callback}

\* the step is a tick of an interval: an ingestion cycle begins, or a
\* detection interval is re-armed
TimerTick ==
  \/ ingested' # ingested
  \/ (Len(task'.pending) = Len(task.pending) /\ task'.pending # task.pending)

\* C30: for any sequence of start() and stop() calls at most one detection
\* timer and one ingestion timer are active; start() while running installs
\* no further timer; stop() cancels both and sets isRunning to false, so that
\* no detection or ingestion tick begins until the next start(); a start()
\* after stop() installs exactly one pair again.
C30_OneTimerPair ==
  /\ [](/\ Cardinality(ActiveTimers("monitorCycle")) = (IF isRunning THEN 1 ELSE 0)
        /\ Cardinality(ActiveTimers("fetchRealOraclePrices")) =
              (IF isRunning THEN 1 ELSE 0)
        /\ (input.done /\ input.op = "stop") => (~isRunning /\ task.pending = <<>>)
        /\ (input.done /\ input.op = "start") => isRunning)
  /\ [][TimerTick => isRunning]_vars

\* a start() while running, in a run that was stopped and started again
C30_Witness ==
  /\ input.done
  /\ input.op = "start"
  /\ input.again
  /\ isRunning
  /\ task.id = 2 * MaxStarts
  /\ Len(task.pending) = 2

\* a stop() after which time passes up to the next tick of the cleared timer
C30_StoppedReached ==
  /\ ~isRunning
  /\ task.id > 0
  /\ timers # <<>>
  /\ clock = Head(timers).due

====
